---- MODULE Spec2Model ----
(***************************************************************************)
(* Book Factory content pipeline: source queue, ingestion runner, autopilot *)
(* loop, swarm drafting orchestrator and the rate-limited X client.         *)
(* One topic is modelled; rows of source_docs are identified by their       *)
(* position in `store` (the autoincrement id).                              *)
(***************************************************************************)
EXTENDS Integers, Sequences, FiniteSets, TLC

VARIABLES
    store,      \* source_docs rows of the topic: Seq([url, source, status])
    inbox,      \* inbox/meta/sources.jsonl: Seq([url, label, source])
    drafts,     \* word count of silo_NN/draft.md, per silo
    qlast,      \* last queue_sources call: its input, return value, repetition
    ing,        \* the run_ingest invocation in progress (locals of the coroutine)
    fail_log,   \* metrics/ingest_failures.jsonl: Seq([row, reason])
    succ_log,   \* metrics/ingest_success.jsonl: Seq([row, word_count])
    x_max_calls_per_run, \* settings.x_max_calls_per_run of this deployment
    ap,         \* the run_autopilot invocation in progress
    ap_log,     \* metrics/autopilot.jsonl: Seq(cycle record)
    ap_status,  \* metrics/autopilot_status.json
    stop_file,  \* metrics/autopilot_stop exists
    swarm_max_parallel, \* settings.swarm_max_parallel of this deployment
    sw,         \* the run_swarm invocation in progress
    task,       \* the _run_silo task of each chapter
    sem,        \* the asyncio.Semaphore of the run: [value, waiters]
    art,        \* per chapter: swarm_draft.md, swarm_draft.prev.md,
                \* swarm_review.json, swarm_sources.json
    swarm_log,  \* metrics/swarm_runs.jsonl: Seq([run, silo])
    x_bearer_token, \* settings.x_bearer_token is set
    now,        \* time.time(), in whole seconds
    last_call_ts,   \* x_client._last_call_ts
    last_sent,  \* when the transport was last invoked, by any operation
    xop,        \* per worker thread: the X client operation it is running
    briefs,     \* the topic's rows of the chapter brief table, in insertion order
    eb,         \* per caller: the ensure_briefs call or brief endpoint it is running
    chunk_in,   \* the arguments of a chunk_text call: [text, max_chars]
    chunk_out   \* what the call returned: Seq(chunk text), or NotCalled

ingestVars == <<store, inbox, drafts, qlast, ing, fail_log, succ_log, 
                x_max_calls_per_run, ap, ap_log, ap_status, stop_file>>
swarmVars == <<swarm_max_parallel, sw, task, sem, art, swarm_log>>
xVars == <<x_bearer_token, now, last_call_ts, last_sent, xop>>
briefVars == <<briefs, eb>>
chunkVars == <<chunk_in, chunk_out>>
auxVars == <<briefVars, chunkVars>>
otherVars == <<swarmVars, xVars, auxVars>>
vars == <<ingestVars, swarmVars, xVars, auxVars>>

----------------------------------------------------------------------------
(* Bounds of the model *)

MaxRows == 3        \* rows the store may hold
MaxList == 2        \* items in one queue_sources input list
MaxSilo == 1        \* silos 0..MaxSilo of the taxonomy are modelled
MaxChunks == 2      \* chunks chunk_text yields for one source
MaxWords == 2       \* words of one nugget block; the caps are MaxWords and MaxWords+1
MaxXCalls == 1      \* x_max_calls_per_run ranges over 0..MaxXCalls
MaxCycles == 2      \* max_cycles of an autopilot request ranges over 1..MaxCycles

(* Program constants *)
ingest_min_words == 300

None == -1

----------------------------------------------------------------------------
(* URLs.  A URL is kept as a string; UrlChars gives its characters so that  *)
(* substring tests are computed the way Python's `in` computes them.        *)

WebUrl == "https://a.org/p"
XUrl == "https://x.com/u/status/1"

Urls == {WebUrl, XUrl}

UrlChars(u) ==
    CASE u = WebUrl -> <<"h","t","t","p","s",":","/","/","a",".","o","r","g","/","p">>
      [] u = XUrl -> <<"h","t","t","p","s",":","/","/","x",".","c","o","m","/","u","/",
                       "s","t","a","t","u","s","/","1">>

X_DOMAINS == { <<"x",".","c","o","m">>,
               <<"t","w","i","t","t","e","r",".","c","o","m">> }

Contains(hay, needle) ==
    \E i \in 1..(Len(hay) - Len(needle) + 1) :
        SubSeq(hay, i, i + Len(needle) - 1) = needle

is_x_url(url) == \E domain \in X_DOMAINS : Contains(UrlChars(url), domain)

----------------------------------------------------------------------------
(* Origin labels.  A label is [tag, n]: a plain label has n = None, the     *)
(* label "cse:silo_<n>" has tag "cse:silo_" and the number n.               *)

Silos == 0..MaxSilo

PlainLabel(t) == [tag |-> t, n |-> None]
CseSiloLabel(k) == [tag |-> "cse:silo_", n |-> k]

SourceLabels == {"discovery", "cse"}
ItemLabels == {PlainLabel("none")} \cup {CseSiloLabel(k) : k \in Silos \ {0}}

(* An input item: a plain URL (label tag "none": not a tuple) or a pair. *)
Items == [url : Urls, label : ItemLabels]

RECURSIVE SeqsUpTo(_, _)
SeqsUpTo(S, n) ==
    IF n = 0 THEN {<<>>}
    ELSE LET shorter == SeqsUpTo(S, n - 1)
         IN shorter \cup {Append(s, x) : s \in {t \in shorter : Len(t) = n - 1}, x \in S}

InputLists == SeqsUpTo(Items, MaxList)

----------------------------------------------------------------------------
(* queue_sources *)

Range(s) == {s[i] : i \in 1..Len(s)}

RECURSIVE SelectSeq2(_, _)
SelectSeq2(s, keep) ==
    IF s = <<>> THEN <<>>
    ELSE IF keep[1] THEN <<s[1]>> \o SelectSeq2(Tail(s), Tail(keep))
         ELSE SelectSeq2(Tail(s), Tail(keep))

(* line 33: URLs already stored for the topic *)
ExistingUrls(rows) == {rows[i].url : i \in 1..Len(rows)}

(* lines 35-43: the items whose URL is not in `existing`, in input order,   *)
(* each with its own label or the default one.  `existing` is the set read   *)
(* before the loop; it is not extended while the loop runs.                  *)
NewUrls(urls, source_label, existing) ==
    LET keep == [i \in 1..Len(urls) |-> urls[i].url \notin existing]
        lab(it) == IF it.label.tag = "none" THEN PlainLabel(source_label) ELSE it.label
        all == [i \in 1..Len(urls) |-> [url |-> urls[i].url, label |-> lab(urls[i])]]
    IN SelectSeq2(all, keep)

(* source_inbox.append_sources: one record per element of `urls`; the element
   handed over by queue_sources is the (url, label) pair itself. *)
AppendSources(box, urls, source) ==
    box \o [i \in 1..Len(urls) |->
              [url |-> urls[i].url, label |-> urls[i].label, source |-> source]]

NewRow(url, label) == [url |-> url, source |-> label, status |-> "pending"]

(* The whole function: returns <<store', inbox', return value>> *)
QueueResult(rows, box, urls, source_label) ==
    IF urls = <<>> THEN <<rows, box, 0>>
    ELSE LET new_urls == NewUrls(urls, source_label, ExistingUrls(rows))
         IN IF new_urls = <<>> THEN <<rows, box, 0>>
            ELSE << rows \o [i \in 1..Len(new_urls) |->
                                NewRow(new_urls[i].url, new_urls[i].label)],
                    AppendSources(box, new_urls, source_label),
                    Len(new_urls) >>

----------------------------------------------------------------------------
(* Draft accumulators and word counts *)

RECURSIVE SumOver(_, _)
SumOver(f, S) ==
    IF S = {} THEN 0
    ELSE LET x == CHOOSE y \in S : TRUE IN f[x] + SumOver(f, S \ {x})

(* storage.draft_paths: the draft.md of every silo *)
draft_paths == Silos

(* metrics.word_count of silo s's draft.md *)
word_count(d, s) == d[s]

(* metrics.total_word_count over a list of paths *)
total_word_count(d, paths) == SumOver([s \in paths |-> word_count(d, s)], paths)

(* ingestion.append_to_silo: "\n\n" + content.strip() is appended, so the
   words of the file are its old words followed by the words of content. *)
append_to_silo(d, silo_number, words) ==
    [d EXCEPT ![silo_number] = @ + words]

----------------------------------------------------------------------------
(* run_ingest *)

IdleIngest ==
    [pc |-> "idle", caller |-> "none", sources |-> <<>>, idx |-> 1,
     processed |-> 0, extracted |-> 0, failed |-> 0, x_calls |-> 0,
     max_per_silo |-> 0, max_total |-> 0,
     text_words |-> None, topic |-> "unchecked",
     chunks_left |-> 0, forced_silo |-> None]

(* the select without its status filter *)
AllSources(rows) == [i \in 1..Len(rows) |-> i]

(* lines 44-50: ids of the topic's rows whose status is pending, in id order *)
PendingSources(rows) ==
    LET keep == [i \in 1..Len(rows) |-> rows[i].status = "pending"]
    IN SelectSeq2([i \in 1..Len(rows) |-> i], keep)

(* lines 70-75: the silo pinned by the origin label, or None *)
ForcedSilo(label) ==
    IF label.tag = "cse:silo_" /\ label.n # None THEN label.n ELSE None

(* a budget test that lets one more social source through *)
SkipSourceOverBudget(url, x_calls, max_calls) == is_x_url(url) /\ x_calls > max_calls

(* line 57: the per-run social-call budget is exhausted for this source *)
SkipSource(url, x_calls, max_calls) == is_x_url(url) /\ x_calls >= max_calls

(* the gates without the minimum-word check *)
GateReasonTopicOnly(words, on_topic) == IF ~on_topic THEN "off_topic" ELSE ""

(* the gates without the topic-term check *)
GateReasonWordsOnly(words, on_topic) ==
    IF words < ingest_min_words THEN "too_short" ELSE ""

(* lines 63-66: the quality gates on the fetched text; "" when both pass *)
GateReason(words, on_topic) ==
    IF words < ingest_min_words THEN "too_short"
    ELSE IF ~on_topic THEN "off_topic"
    ELSE ""

(* line 65: the topic-term test is made only on a text that passed the
   minimum-word gate *)
TopicTest(words, on_topic) ==
    IF words < ingest_min_words THEN "unchecked"
    ELSE IF on_topic THEN "on_topic" ELSE "off_topic"

(* a cap check that lets a count equal to the cap through *)
CapExceeded(count, cap) == count > cap

(* lines 79-80 and 89-90: a cap check passes while the count is below the cap *)
CapReached(count, cap) == count >= cap

CurRow == ing.sources[ing.idx]

(* an except branch that leaves the loop instead of going on *)
FailSourceBreaks(base, reason) ==
    /\ store' = [store EXCEPT ![CurRow].status = "failed"]
    /\ fail_log' = Append(fail_log, [row |-> CurRow, reason |-> reason])
    /\ ing' = [base EXCEPT !.failed = @ + 1, !.idx = Len(base.sources) + 1,
                           !.pc = "next", !.chunks_left = 0, !.forced_silo = None]

(* a run that keeps every status in its session until the loop is over *)
CommitAfterLoop(rows, row, status) == rows

(* lines 96 or 102, then line 109: the status is assigned to the row and
   session.commit() stores it, inside the loop over the sources *)
Commit(rows, row, status) == [rows EXCEPT ![row].status = status]

(* lines 101-109: the except branch, then the commit of line 109.  `base` is
   the coroutine's state when the exception is raised. *)
FailSource(base, reason) ==
    /\ store' = Commit(store, CurRow, "failed")
    /\ fail_log' = Append(fail_log, [row |-> CurRow, reason |-> reason])
    /\ ing' = [base EXCEPT !.failed = @ + 1, !.idx = @ + 1, !.pc = "next",
                           !.chunks_left = 0, !.forced_silo = None]

(* lines 53-55: the caps the run reads when it starts (runtime override or
   static default), in the model's word unit *)
draft_max_words_per_silo == MaxWords
draft_max_words_total == MaxWords + 1

(* lines 38-55 *)
BeginIngest(caller) ==
    /\ ing.pc \in {"idle", "done"}
    /\ ing' = [IdleIngest EXCEPT !.pc = "next", !.caller = caller,
                                 !.sources = PendingSources(store),
                                 !.max_per_silo = draft_max_words_per_silo,
                                 !.max_total = draft_max_words_total]
    /\ UNCHANGED <<store, inbox, drafts, qlast, fail_log, succ_log, 
                   x_max_calls_per_run, otherVars, ap_log, ap_status, stop_file>>

(* lines 56-58: the budget skip *)
IngestSkip ==
    /\ ing.pc = "next" /\ ing.idx <= Len(ing.sources)
    /\ SkipSource(store[CurRow].url, ing.x_calls, x_max_calls_per_run)
    /\ ing' = [ing EXCEPT !.idx = @ + 1]
    /\ UNCHANGED <<store, inbox, drafts, qlast, fail_log, succ_log, 
                   x_max_calls_per_run, otherVars, ap, ap_log, ap_status, stop_file>>

(* what fetch_and_clean may raise: a transport error (not a ValueError, logged
   as "failed") or one of its ValueErrors (logged with its message) *)
FetchErrors(url) ==
    IF is_x_url(url) THEN {"failed", "X bearer token missing"}
    ELSE {"failed"}

TextWords == {ingest_min_words - 1, ingest_min_words}

(* lines 59-75: fetch, quality gates, chunking, forced silo *)
IngestFetch ==
    /\ ing.pc = "next" /\ ing.idx <= Len(ing.sources)
    /\ ~SkipSource(store[CurRow].url, ing.x_calls, x_max_calls_per_run)
    /\ LET counted == [ing EXCEPT !.processed = @ + 1, !.text_words = None,
                                  !.topic = "unchecked"] IN
       \/ \E reason \in FetchErrors(store[CurRow].url) : FailSource(counted, reason)
       \/ \E words \in TextWords, on_topic \in BOOLEAN, n \in 1..MaxChunks :
            LET reason == GateReason(words, on_topic)
                fetched == [counted EXCEPT !.text_words = words,
                                           !.topic = TopicTest(words, on_topic)] IN
            IF reason # ""
            THEN FailSource(fetched, reason)
            ELSE /\ ing' = [fetched EXCEPT !.pc = "chunks", !.chunks_left = n,
                                !.forced_silo = ForcedSilo(store[CurRow].source)]
                 /\ UNCHANGED <<store, fail_log>>
    /\ UNCHANGED <<inbox, drafts, qlast, succ_log,
                   x_max_calls_per_run, otherVars, ap, ap_log, ap_status, stop_file>>

(* what a model call may do: raise (an httpx error, logged as "failed") or answer *)
ClassifyAnswers == Silos
NuggetWords == 0..MaxWords

(* an iteration that asks for the classification before it looks at the
   total cap *)
ClassifyFirst(d, forced_silo, max_per_silo, max_total, silo, words, raises) ==
    LET classified == IF forced_silo = None THEN <<"classify">> ELSE <<>> IN
    IF forced_silo = None /\ raises = "classify"
    THEN [reason |-> "failed", drafts |-> d, calls |-> classified]
    ELSE IF CapReached(total_word_count(d, draft_paths), max_total)
    THEN [reason |-> "draft_total_cap", drafts |-> d, calls |-> classified]
    ELSE LET silo_num == IF forced_silo # None THEN forced_silo ELSE silo IN
         IF CapReached(word_count(d, silo_num), max_per_silo)
         THEN [reason |-> "draft_silo_cap", drafts |-> d, calls |-> classified]
         ELSE IF raises = "extract" \/ silo_num \notin Silos
         THEN [reason |-> "failed", drafts |-> d,
               calls |-> Append(classified, "extract")]
         ELSE [reason |-> "", drafts |-> append_to_silo(d, silo_num, words),
               calls |-> Append(classified, "extract")]

(* lines 77-94: one iteration of the chunk loop.  `silo` is the answer of
   classify_chunk and `words` the size of the block extract_nuggets returns;
   `raises` names the model call that raises, if any.  `calls` lists the
   model calls the iteration makes, in order.  A forced silo that has no
   directory passes the cap check (its draft counts 0 words) and fails at
   the append. *)
ChunkOutcome(d, forced_silo, max_per_silo, max_total, silo, words, raises) ==
    LET classified == IF forced_silo = None THEN <<"classify">> ELSE <<>> IN
    IF CapReached(total_word_count(d, draft_paths), max_total)
    THEN [reason |-> "draft_total_cap", drafts |-> d, calls |-> <<>>]
    ELSE IF forced_silo = None /\ raises = "classify"
    THEN [reason |-> "failed", drafts |-> d, calls |-> classified]
    ELSE LET silo_num == IF forced_silo # None THEN forced_silo ELSE silo IN
         IF silo_num \in Silos /\ CapReached(word_count(d, silo_num), max_per_silo)
         THEN [reason |-> "draft_silo_cap", drafts |-> d, calls |-> classified]
         ELSE IF raises = "extract" \/ silo_num \notin Silos
         THEN [reason |-> "failed", drafts |-> d,
               calls |-> Append(classified, "extract")]
         ELSE [reason |-> "", drafts |-> append_to_silo(d, silo_num, words),
               calls |-> Append(classified, "extract")]

IngestChunk ==
    /\ ing.pc = "chunks" /\ ing.chunks_left > 0
    /\ \E silo \in ClassifyAnswers, words \in NuggetWords,
          raises \in {"none", "classify", "extract"} :
         LET out == ChunkOutcome(drafts, ing.forced_silo, ing.max_per_silo,
                                 ing.max_total, silo, words, raises) IN
         IF out.reason # ""
         THEN FailSource(ing, out.reason) /\ UNCHANGED drafts
         ELSE /\ drafts' = out.drafts
              /\ ing' = [ing EXCEPT !.chunks_left = @ - 1]
              /\ UNCHANGED <<store, fail_log>>
    /\ UNCHANGED <<inbox, qlast, succ_log, 
                   x_max_calls_per_run, otherVars, ap, ap_log, ap_status, stop_file>>

(* lines 96-100 and 109: every chunk went through; the source is extracted *)
IngestSourceDone ==
    /\ ing.pc = "chunks" /\ ing.chunks_left = 0
    /\ store' = Commit(store, CurRow, "extracted")
    /\ succ_log' = Append(succ_log, [row |-> CurRow, word_count |-> ing.text_words])
    /\ ing' = [ing EXCEPT !.extracted = @ + 1,
                          !.x_calls = IF is_x_url(store[CurRow].url) THEN @ + 1 ELSE @,
                          !.idx = @ + 1, !.pc = "next", !.forced_silo = None]
    /\ UNCHANGED <<inbox, drafts, qlast, fail_log, 
                   x_max_calls_per_run, otherVars, ap, ap_log, ap_status, stop_file>>

(* lines 96-109 when log_success raises (the metrics directory or the success
   log cannot be written): status and counters of lines 96-99 are already
   set, the except branch of the same try sets the status to failed, counts
   the failure and logs it as "failed", and line 109 commits *)
IngestLogSuccessRaises ==
    /\ ing.pc = "chunks" /\ ing.chunks_left = 0
    /\ FailSource([ing EXCEPT !.extracted = @ + 1,
                              !.x_calls = IF is_x_url(store[CurRow].url)
                                          THEN @ + 1 ELSE @],
                  "failed")
    /\ UNCHANGED <<inbox, drafts, qlast, succ_log,
                   x_max_calls_per_run, otherVars, ap, ap_log, ap_status, stop_file>>

(* the run dies inside the loop of lines 56-109 (the process is killed, the
   task is cancelled, or log_failure raises in the except branch): what the
   session holds and has not committed is rolled back, the database keeps
   what was committed, the draft files keep what was appended *)
IngestCrash ==
    /\ ing.pc \in {"next", "chunks"}
    /\ ing' = [ing EXCEPT !.pc = "crashed"]
    /\ UNCHANGED <<store, inbox, drafts, qlast, fail_log, succ_log,
                   x_max_calls_per_run, otherVars, ap, ap_log, ap_status, stop_file>>

(* lines 111-118: the loop is over; the statistics are returned *)
IngestReturn ==
    /\ ing.pc = "next" /\ ing.idx > Len(ing.sources)
    /\ ing' = [ing EXCEPT !.pc = "done"]
    /\ UNCHANGED <<store, inbox, drafts, qlast, fail_log, succ_log, 
                   x_max_calls_per_run, otherVars, ap, ap_log, ap_status, stop_file>>

(* api/ingest-style direct call of run_ingest (not through the autopilot) *)
RunIngest ==
    /\ ap.pc \in {"idle", "aborted"}
    /\ BeginIngest("direct")
    /\ UNCHANGED ap

----------------------------------------------------------------------------
(* queue_sources called directly (discovery endpoint, topic creation) *)

NoQueueCall ==
    [called |-> FALSE, urls |-> <<>>, source_label |-> "", ret |-> 0,
     repeat |-> FALSE, rows_before |-> 0]

(* the record of a call: `repeat` says the call before it had the same input *)
QueueCall(urls, source_label, ret) ==
    [called |-> TRUE, urls |-> urls, source_label |-> source_label, ret |-> ret,
     repeat |-> qlast.called /\ qlast.urls = urls /\ qlast.source_label = source_label,
     rows_before |-> Len(store)]

DoQueue(urls, source_label) ==
    LET r == QueueResult(store, inbox, urls, source_label) IN
    /\ Len(r[1]) <= MaxRows
    /\ store' = r[1]
    /\ inbox' = r[2]

(* a call that writes the inbox log only once the commit has gone through *)
QueueCommitFailsNoInbox(rows, box, urls, source_label) ==
    IF urls = <<>> THEN <<rows, box, 0>>
    ELSE LET new_urls == NewUrls(urls, source_label, ExistingUrls(rows))
         IN IF new_urls = <<>> THEN <<rows, box, 0>>
            ELSE <<rows, box, None>>

(* lines 27-60 when session.commit() raises: append_sources (line 46) has
   written the inbox log, the rows added to the session are not stored and
   the exception leaves the function (return value None here).  A call with
   nothing new returns before it reaches the commit. *)
QueueCommitFails(rows, box, urls, source_label) ==
    IF urls = <<>> THEN <<rows, box, 0>>
    ELSE LET new_urls == NewUrls(urls, source_label, ExistingUrls(rows))
         IN IF new_urls = <<>> THEN <<rows, box, 0>>
            ELSE <<rows, AppendSources(box, new_urls, source_label), None>>

(* a call of queue_sources whose commit raises *)
QueueSourcesCommitFails ==
    /\ \E urls \in InputLists, source_label \in SourceLabels :
         LET r == QueueCommitFails(store, inbox, urls, source_label) IN
         /\ r[3] = None
         /\ Len(r[2]) <= MaxRows
         /\ store' = r[1]
         /\ inbox' = r[2]
    /\ UNCHANGED <<drafts, qlast, ing, fail_log, succ_log,
                   x_max_calls_per_run, otherVars, ap, ap_log, ap_status, stop_file>>

(* a call between two other operations of the pipeline *)
QueueSources ==
    /\ ap.pc \in {"idle", "aborted"} /\ ing.pc \in {"idle", "done"}
    /\ \E urls \in InputLists : DoQueue(urls, "discovery")
    /\ UNCHANGED <<drafts, qlast, ing, fail_log, succ_log, 
                   x_max_calls_per_run, otherVars, ap, ap_log, ap_status, stop_file>>

(* a call whose input and return value are recorded *)
QueueSourcesCall ==
    /\ \E urls \in InputLists, source_label \in SourceLabels :
         /\ DoQueue(urls, source_label)
         /\ qlast' = QueueCall(urls, source_label,
                               QueueResult(store, inbox, urls, source_label)[3])
    /\ UNCHANGED <<drafts, ing, fail_log, succ_log, 
                   x_max_calls_per_run, otherVars, ap, ap_log, ap_status, stop_file>>

----------------------------------------------------------------------------
(* run_autopilot *)

MaxCooldown == 3    \* cooldown_seconds of a request ranges over {0, MaxCooldown}

IdleAp ==
    [pc |-> "idle", cycle |-> 0, max_cycles |-> 0, cooldown_seconds |-> 0,
     stop_wordcount |-> None, stop_on_no_new |-> TRUE,
     queued |-> 0, candidates |-> 0, pending_before |-> 0, remaining |-> 0,
     stop_lost |-> 0]

(* autopilot._pending_count *)
PendingCount(rows) == Cardinality({i \in 1..Len(rows) : rows[i].status = "pending"})

(* autopilot._draft_wordcount_total: silos 0..10 *)
DraftWordcountTotal(d) == SumOver([s \in Silos |-> word_count(d, s)], Silos)

NoDup(s) == \A i, j \in 1..Len(s) : i # j => s[i] # s[j]

(* line 70: feed and repository URLs, de-duplicated by dict.fromkeys *)
CandidateLists ==
    {s \in SeqsUpTo([url : Urls, label : {PlainLabel("none")}], MaxList) : NoDup(s)}

(* discovery.cse_discover: (url, "cse:silo_<n>") pairs, n in 1..10,
   de-duplicated as pairs *)
CseLists ==
    {s \in SeqsUpTo([url : Urls, label : {CseSiloLabel(k) : k \in Silos \ {0}}], MaxList) :
        NoDup(s)}

(* api/autopilot.start_autopilot: a sentinel left behind is removed and the
   loop is scheduled as a background task with the request's parameters *)
AutopilotRequests ==
    [max_cycles : 1..MaxCycles, cooldown_seconds : {0, MaxCooldown},
     stop_wordcount : {None, MaxWords}, stop_on_no_new : BOOLEAN]

StartAutopilot ==
    /\ ap.pc \in {"idle", "aborted"} /\ ing.pc \in {"idle", "done"}
    /\ \E req \in AutopilotRequests :
         /\ Len(ap_log) + req.max_cycles <= MaxCycles
         /\ ap' = [IdleAp EXCEPT !.pc = "scheduled",
                                 !.max_cycles = req.max_cycles,
                                 !.cooldown_seconds = req.cooldown_seconds,
                                 !.stop_wordcount = req.stop_wordcount,
                                 !.stop_on_no_new = req.stop_on_no_new]
    /\ stop_file' = FALSE
    /\ UNCHANGED <<store, inbox, drafts, qlast, ing, fail_log, succ_log, 
                   x_max_calls_per_run, otherVars, ap_log, ap_status>>

(* lines 48-57: run_autopilot starts; the status snapshot says running *)
ApBegin ==
    /\ ap.pc = "scheduled"
    /\ ap' = [ap EXCEPT !.pc = "cycle", !.cycle = 1]
    /\ ap_status' = [running |-> TRUE, last_cycle |-> 0, stop_requested |-> FALSE]
    /\ UNCHANGED <<store, inbox, drafts, qlast, ing, fail_log, succ_log, 
                   x_max_calls_per_run, otherVars, ap_log, stop_file>>

(* lines 59-61: the loop is exhausted, or the stop sentinel is present *)
ApLoopEnds ==
    /\ ap.pc = "cycle"
    /\ ap.cycle > ap.max_cycles \/ stop_file
    /\ ap' = [ap EXCEPT !.pc = "exit"]
    /\ UNCHANGED <<store, inbox, drafts, qlast, ing, fail_log, succ_log, 
                   x_max_calls_per_run, otherVars, ap_log, ap_status, stop_file>>

(* a cycle that starts its work without looking at the stop sentinel *)
ApDiscoverIgnoringSentinel ==
    /\ ap.pc = "cycle"
    /\ ap.cycle <= ap.max_cycles
    /\ \E candidates \in CandidateLists :
         /\ DoQueue(candidates, "discovery") /\ UNCHANGED qlast
         /\ ap' = [ap EXCEPT !.pc = "queue_cse",
                             !.pending_before = PendingCount(store),
                             !.candidates = Len(candidates),
                             !.queued = Len(store') - Len(store)]
    /\ UNCHANGED <<drafts, ing, fail_log, succ_log,
                   x_max_calls_per_run, otherVars, ap_log, ap_status, stop_file>>

(* lines 63-72: pending count, discovery, first queue_sources call *)
ApDiscover ==
    /\ ap.pc = "cycle"
    /\ ap.cycle <= ap.max_cycles /\ ~stop_file
    /\ \E candidates \in CandidateLists :
         /\ DoQueue(candidates, "discovery") /\ UNCHANGED qlast
         /\ ap' = [ap EXCEPT !.pc = "queue_cse",
                             !.pending_before = PendingCount(store),
                             !.candidates = Len(candidates),
                             !.queued = Len(store') - Len(store)]
    /\ UNCHANGED <<drafts, ing, fail_log, succ_log, 
                   x_max_calls_per_run, otherVars, ap_log, ap_status, stop_file>>

(* line 69: github_search_repos raises (raise_for_status); nothing in
   run_autopilot catches it, so the coroutine ends there *)
ApDiscoverRaises ==
    /\ ap.pc = "cycle"
    /\ ap.cycle <= ap.max_cycles /\ ~stop_file
    /\ ap' = [ap EXCEPT !.pc = "aborted"]
    /\ UNCHANGED <<store, inbox, drafts, qlast, ing, fail_log, succ_log, 
                   x_max_calls_per_run, otherVars, ap_log, ap_status, stop_file>>

(* lines 71-73: the CSE pairs are queued *)
ApQueueCse ==
    /\ ap.pc = "queue_cse"
    /\ \E cse_sources \in CseLists :
         /\ DoQueue(cse_sources, "cse") /\ UNCHANGED qlast
         /\ ap' = [ap EXCEPT !.pc = "ingest_start",
                             !.queued = @ + (Len(store') - Len(store))]
    /\ UNCHANGED <<drafts, ing, fail_log, succ_log, 
                   x_max_calls_per_run, otherVars, ap_log, ap_status, stop_file>>

(* line 75: run_ingest is called *)
ApIngest ==
    /\ ap.pc = "ingest_start"
    /\ BeginIngest("autopilot")
    /\ ap' = [ap EXCEPT !.pc = "ingest"]

(* stop conditions without the convergence test *)
StopOnWordcountOnly(stop_wordcount, stop_on_no_new, draft_words, queued, processed) ==
    stop_wordcount # None /\ stop_wordcount # 0 /\ draft_words >= stop_wordcount

(* lines 107-110: the stop conditions checked after a cycle *)
StopAfterCycle(stop_wordcount, stop_on_no_new, draft_words, queued, processed) ==
    \/ stop_wordcount # None /\ stop_wordcount # 0 /\ draft_words >= stop_wordcount
    \/ stop_on_no_new /\ queued = 0 /\ processed = 0

(* lines 76-110: run_ingest has returned; record, status, stop conditions *)
ApRecord ==
    /\ ap.pc = "ingest" /\ ing.pc = "done" /\ ing.caller = "autopilot"
    /\ LET draft_words == DraftWordcountTotal(drafts)
           stats == [processed |-> ing.processed, extracted |-> ing.extracted,
                     failed |-> ing.failed, x_calls |-> ing.x_calls]
       IN /\ ap_log' = Append(ap_log,
                 [cycle |-> ap.cycle, queued |-> ap.queued,
                  candidates |-> ap.candidates,
                  pending_before |-> ap.pending_before,
                  pending_after |-> PendingCount(store),
                  draft_words |-> draft_words, ingest |-> stats])
          /\ ap_status' = [running |-> TRUE, last_cycle |-> ap.cycle,
                           stop_requested |-> FALSE]
          /\ ap' = IF StopAfterCycle(ap.stop_wordcount, ap.stop_on_no_new,
                                     draft_words, ap.queued, ing.processed)
                   THEN [ap EXCEPT !.pc = "exit"]
                   ELSE [ap EXCEPT !.pc = "cooldown",
                                   !.remaining = ap.cooldown_seconds]
    /\ UNCHANGED <<store, inbox, drafts, qlast, ing, fail_log, succ_log, 
                   x_max_calls_per_run, otherVars, stop_file>>

(* a cooldown after which the cycle number stays what it was *)
ApCooldownSameCycle ==
    /\ ap.pc = "cooldown"
    /\ IF ap.remaining > 0 /\ ~stop_file
       THEN LET step == IF ap.remaining >= 2 THEN 2 ELSE ap.remaining
            IN ap' = [ap EXCEPT !.remaining = @ - step]
       ELSE ap' = [ap EXCEPT !.pc = "cycle"]
    /\ UNCHANGED <<store, inbox, drafts, qlast, ing, fail_log, succ_log,
                   x_max_calls_per_run, otherVars, ap_log, ap_status, stop_file>>

(* a cooldown that is one long sleep *)
ApCooldownOneSleep ==
    /\ ap.pc = "cooldown"
    /\ IF ap.remaining > 0 /\ ~stop_file
       THEN ap' = [ap EXCEPT !.remaining = 0]
       ELSE ap' = [ap EXCEPT !.pc = "cycle", !.cycle = @ + 1]
    /\ UNCHANGED <<store, inbox, drafts, qlast, ing, fail_log, succ_log,
                   x_max_calls_per_run, otherVars, ap_log, ap_status, stop_file>>

(* lines 113-119: one pass of the cooldown loop; when it ends, the for loop
   moves to the next cycle *)
ApCooldown ==
    /\ ap.pc = "cooldown"
    /\ IF ap.remaining > 0 /\ ~stop_file
       THEN LET step == IF ap.remaining >= 2 THEN 2 ELSE ap.remaining
            IN ap' = [ap EXCEPT !.remaining = @ - step]
       ELSE ap' = [ap EXCEPT !.pc = "cycle", !.cycle = @ + 1]
    /\ UNCHANGED <<store, inbox, drafts, qlast, ing, fail_log, succ_log, 
                   x_max_calls_per_run, otherVars, ap_log, ap_status, stop_file>>

(* an exit that leaves the sentinel where it is *)
ApExitKeepsSentinel ==
    /\ ap.pc = "exit"
    /\ ap_status' = [running |-> FALSE, last_cycle |-> 0, stop_requested |-> FALSE]
    /\ ap' = [ap EXCEPT !.pc = "idle"]
    /\ UNCHANGED <<store, inbox, drafts, qlast, ing, fail_log, succ_log,
                   x_max_calls_per_run, otherVars, ap_log, stop_file>>

(* lines 121-127 *)
ApExit ==
    /\ ap.pc = "exit"
    /\ ap_status' = [running |-> FALSE, last_cycle |-> 0, stop_requested |-> FALSE]
    /\ stop_file' = FALSE
    /\ ap' = [ap EXCEPT !.pc = "idle"]
    /\ UNCHANGED <<store, inbox, drafts, qlast, ing, fail_log, succ_log, 
                   x_max_calls_per_run, otherVars, ap_log>>

(* api/autopilot.start_autopilot, lines 54-79, called while a loop is
   running: the endpoint does not look for a running loop; it removes the
   sentinel if there is one and schedules one more run_autopilot as a
   background task.  The steps of that further loop are not taken here: the
   running loop goes on alone, as it does until the new task gets to run.
   ap.stop_lost keeps the last cycle the running loop had begun when a
   sentinel it had not acted on was removed (0: none was); one such request
   per loop is followed. *)
StartWhileRunning ==
    /\ ap.pc \notin {"idle", "aborted", "scheduled", "exit"}
    /\ stop_file /\ ap.stop_lost = 0
    /\ stop_file' = FALSE
    /\ ap' = [ap EXCEPT !.stop_lost =
                IF ap.pc = "cycle" THEN ap.cycle - 1 ELSE ap.cycle]
    /\ UNCHANGED <<store, inbox, drafts, qlast, ing, fail_log, succ_log,
                   x_max_calls_per_run, otherVars, ap_log, ap_status>>

(* api/autopilot.stop_autopilot: the sentinel is written, the status overwritten *)
StopRequest ==
    /\ ~stop_file
    /\ stop_file' = TRUE
    /\ ap_status' = [running |-> FALSE, last_cycle |-> 0, stop_requested |-> TRUE]
    /\ UNCHANGED <<store, inbox, drafts, qlast, ing, fail_log, succ_log, 
                   x_max_calls_per_run, otherVars, ap, ap_log>>

----------------------------------------------------------------------------
(* The swarm drafting orchestrator (services/swarm.py).  A text written by  *)
(* a run is identified by the number of that run.                           *)

MaxChapters == 3    \* chapters 1..MaxChapters of the taxonomy are modelled
MaxParallel == 2    \* swarm_max_parallel ranges over 1..MaxParallel
MaxRuns == 2        \* run_swarm invocations, the one before the behaviour included

Chapters == 1..MaxChapters
Absent == 0         \* the content of a file that does not exist

NoReview == [run |-> Absent, kind |-> "", score |-> 0, gaps |-> ""]
NoArtifacts ==
    [draft |-> Absent, prev |-> Absent, review |-> NoReview, sources |-> Absent]

(* `before` keeps the artifacts as they were when the run launched its tasks *)
IdleSwarm ==
    [pc |-> "idle", run |-> 0, selected |-> {},
     before |-> [c \in Chapters |-> NoArtifacts],
     completed |-> <<>>, errors |-> <<>>]

NoTask == [pc |-> "none", err |-> "", web |-> ""]

(* what a run leaves for a chapter it completed *)
CompletedArtifacts(a, run) ==
    [a EXCEPT !.draft = run, !.sources = run,
              !.review = [run |-> run, kind |-> "object", score |-> 1, gaps |-> ""]]

(* asyncio.Semaphore(value) *)
NewSemaphore(n) == [value |-> n, waiters |-> <<>>]

(* an acquire that never has to wait *)
NeverLocked(s) == FALSE

(* Semaphore.locked(): no permit left, or somebody already waits for one *)
Locked(s) == s.value = 0 \/ s.waiters # <<>>

(* Semaphore.release(): the permit goes to the longest waiter if there is one *)
Release(s) ==
    IF s.waiters # <<>> THEN [s EXCEPT !.waiters = Tail(@)]
    ELSE [s EXCEPT !.value = @ + 1]

(* line 396: an empty selection means every chapter *)
Selected(silos) == IF silos # {} THEN silos ELSE Chapters

(* lines 395-411 and 492: briefs ensured, semaphore built, one task per
   selected chapter handed to gather *)
RunSwarm ==
    /\ sw.pc \in {"idle", "returned", "raised"}
    /\ sw.run < MaxRuns
    /\ \E silos \in SUBSET Chapters :
         /\ sw' = [IdleSwarm EXCEPT !.pc = "gather", !.run = sw.run + 1,
                                    !.selected = Selected(silos), !.before = art]
         /\ task' = [c \in Chapters |->
                       IF c \in Selected(silos) THEN [pc |-> "new", err |-> "", web |-> ""]
                       ELSE NoTask]
    /\ sem' = NewSemaphore(swarm_max_parallel)
    /\ UNCHANGED <<ingestVars, auxVars, xVars, swarm_max_parallel, art, swarm_log>>

(* lines 395-408: ensure_briefs or the trend digest raises; no task is made *)
RunSwarmRaises ==
    /\ sw.pc \in {"idle", "returned", "raised"}
    /\ sw.run < MaxRuns
    /\ sw' = [IdleSwarm EXCEPT !.pc = "raised", !.run = sw.run + 1]
    /\ task' = [c \in Chapters |-> NoTask]
    /\ UNCHANGED <<ingestVars, auxVars, xVars, swarm_max_parallel, sem, art, swarm_log>>

(* line 411, entering `async with semaphore` *)
TaskStart(c) ==
    /\ sw.pc = "gather" /\ task[c].pc = "new"
    /\ IF ~Locked(sem)
         THEN /\ sem' = [sem EXCEPT !.value = @ - 1]
              /\ task' = [task EXCEPT ![c].pc = "context"]
         ELSE /\ sem' = [sem EXCEPT !.waiters = Append(@, c)]
              /\ task' = [task EXCEPT ![c].pc = "waiting"]
    /\ UNCHANGED <<ingestVars, auxVars, xVars, swarm_max_parallel, sw, art, swarm_log>>

(* line 411, leaving `async with semaphore`, by return or by exception: the
   permit is released and the first waiter, if any, goes on with it *)
LeaveAs(c, t) ==
    /\ sem' = Release(sem)
    /\ task' = [k \in Chapters |->
                  IF k = c THEN t
                  ELSE IF sem.waiters # <<>> /\ k = Head(sem.waiters)
                       THEN [task[k] EXCEPT !.pc = "context"]
                       ELSE task[k]]

Leave(c, pc, err) == LeaveAs(c, [task[c] EXCEPT !.pc = pc, !.err = err])

(* lines 139-164: what _web_evidence returns, as the sequence its caller
   unpacks: the empty string when web search is off, has no key or finds no
   URL, and the pair (notes, sources) otherwise *)
web_evidence(found) == IF found THEN <<"notes", "sources">> ELSE <<>>

(* lines 433-440: _build_context, which may raise before it reaches the web
   evidence; line 290 unpacks _web_evidence's value into two names, which
   raises ValueError unless it has two items.  task[c].web keeps whether the
   web evidence was there ("found") or absent ("none") *)
TaskContext(c) ==
    /\ sw.pc = "gather" /\ task[c].pc = "context"
    /\ \E raises, found \in BOOLEAN :
         IF raises THEN Leave(c, "failed", "context")
         ELSE LET web == IF found THEN "found" ELSE "none" IN
              IF Len(web_evidence(found)) = 2
              THEN /\ task' = [task EXCEPT ![c].pc = "research", ![c].web = web]
                   /\ sem' = sem
              ELSE LeaveAs(c, [pc |-> "failed", err |-> "context", web |-> web])
    /\ UNCHANGED <<ingestVars, auxVars, xVars, swarm_max_parallel, sw, art, swarm_log>>

(* lines 441-443: _research_memo *)
TaskResearch(c) ==
    /\ sw.pc = "gather" /\ task[c].pc = "research"
    /\ \E raises \in BOOLEAN :
         IF ~raises
         THEN /\ task' = [task EXCEPT ![c].pc = "write"]
              /\ sem' = sem
         ELSE Leave(c, "failed", "research")
    /\ UNCHANGED <<ingestVars, auxVars, xVars, swarm_max_parallel, sw, art, swarm_log>>

(* what shutil.copyfile may do: copy the whole file; raise OSError before it
   has touched the backup; raise OSError after it has opened the backup for
   writing, which leaves it cut short *)
CopyOutcomes == {"copied", "refused", "cut_short"}
Truncated == -2     \* the content of a backup that was cut short

(* a pipeline that writes the draft first and backs it up afterwards *)
WriteThenBackup(a, text, copy) ==
    [a EXCEPT !.prev = IF a.draft = Absent \/ copy = "refused" THEN @
                       ELSE IF copy = "copied" THEN text
                       ELSE Truncated,
              !.draft = text]

(* lines 445-452: the draft is copied to swarm_draft.prev.md if it exists
   (an OSError of the copy is swallowed) and then overwritten *)
WriteDraft(a, text, copy) ==
    [a EXCEPT !.prev = IF a.draft = Absent \/ copy = "refused" THEN @
                       ELSE IF copy = "copied" THEN a.draft
                       ELSE Truncated,
              !.draft = text]

(* lines 444-452: _write_chapter, then the backup and the draft write *)
TaskWrite(c) ==
    /\ sw.pc = "gather" /\ task[c].pc = "write"
    /\ \E raises \in BOOLEAN, copy \in CopyOutcomes :
         IF ~raises
         THEN /\ art' = [art EXCEPT ![c] = WriteDraft(@, sw.run, copy)]
              /\ task' = [task EXCEPT ![c].pc = "review"]
              /\ sem' = sem
         ELSE Leave(c, "failed", "write") /\ art' = art
    /\ UNCHANGED <<ingestVars, auxVars, xVars, swarm_max_parallel, sw, swarm_log>>

(* the model's answers to the review request: a JSON object, text that is
   not JSON, JSON that is not an object *)
ReviewResponses == {"object", "not_json", "non_object"}

(* lines 380-384: json.loads, with the placeholder on JSONDecodeError *)
review_chapter(response, run) ==
    CASE response = "object" ->
           [run |-> run, kind |-> "object", score |-> 1, gaps |-> ""]
      [] response = "not_json" ->
           [run |-> run, kind |-> "object", score |-> 0,
            gaps |-> "Review parse failed"]
      [] response = "non_object" ->
           [run |-> run, kind |-> "non_object", score |-> 0, gaps |-> ""]

(* lines 454-490: _review_chapter, the review and the sources manifest are
   written, the record is built (review.get raises on a review that is not
   an object) and logged *)
TaskReview(c) ==
    /\ sw.pc = "gather" /\ task[c].pc = "review"
    /\ \/ /\ Leave(c, "failed", "review")
          /\ UNCHANGED <<art, swarm_log>>
       \/ \E response \in ReviewResponses :
            LET review == review_chapter(response, sw.run) IN
            /\ art' = [art EXCEPT ![c].review = review, ![c].sources = sw.run]
            /\ IF review.kind = "object"
                 THEN /\ swarm_log' = Append(swarm_log, [run |-> sw.run, silo |-> c])
                      /\ Leave(c, "done", "")
                 ELSE /\ swarm_log' = swarm_log
                      /\ Leave(c, "failed", "record")
    /\ UNCHANGED <<ingestVars, auxVars, xVars, swarm_max_parallel, sw>>

RECURSIVE InOrder(_)
(* the members of a set of chapters in the order of the selection list *)
InOrder(S) ==
    IF S = {} THEN <<>>
    ELSE LET m == CHOOSE x \in S : \A y \in S : x <= y
         IN <<m>> \o InOrder(S \ {m})

(* lines 493-499: the results that are records *)
Completed(selected, tasks, run) ==
    LET done == InOrder({c \in selected : tasks[c].pc = "done"})
    IN [i \in 1..Len(done) |-> [run |-> run, silo |-> done[i]]]

(* the errors list cut to its first entry *)
FirstErrorOnly(selected, tasks) ==
    LET failed == InOrder({c \in selected : tasks[c].pc = "failed"})
    IN IF failed = <<>> THEN <<>> ELSE <<tasks[failed[1]].err>>

(* lines 493-499: the results that are exceptions, as strings *)
Errors(selected, tasks) ==
    LET failed == InOrder({c \in selected : tasks[c].pc = "failed"})
    IN [i \in 1..Len(failed) |-> tasks[failed[i]].err]

(* lines 492-505: gather has every result; the run returns *)
SwarmReturn ==
    /\ sw.pc = "gather"
    /\ \A c \in sw.selected : task[c].pc \in {"done", "failed"}
    /\ sw' = [sw EXCEPT !.pc = "returned",
                        !.completed = Completed(sw.selected, task, sw.run),
                        !.errors = Errors(sw.selected, task)]
    /\ UNCHANGED <<ingestVars, auxVars, xVars, swarm_max_parallel, task, sem, art, swarm_log>>

TaskStep(c) ==
    \/ TaskStart(c)
    \/ TaskContext(c)
    \/ TaskResearch(c)
    \/ TaskWrite(c)
    \/ TaskReview(c)

----------------------------------------------------------------------------
(* The X client (services/x_client.py).  Time is counted in whole seconds. *)

MaxThreads == 2     \* worker threads that call the client
MaxClock == 4       \* the clock runs from 0 to MaxClock
MaxCallers == 2     \* concurrent callers of ensure_briefs
MaxText == 7        \* characters of the text given to chunk_text
MaxChars == 5       \* max_chars of a chunk_text call ranges over 0..MaxChars

x_min_seconds_between_calls == 2

XThreads == 1..MaxThreads
XOperations ==
    {"fetch_tweet_payload", "fetch_username", "fetch_thread_text",
     "search_recent_tweets"}

Max(a, b) == IF a >= b THEN a ELSE b

Digits == <<"0", "1", "2", "3", "4", "5", "6", "7", "8", "9">>

(* str.isdigit() *)
isdigit(s) == Len(s) > 0 /\ \A i \in 1..Len(s) : \E d \in 1..10 : Digits[d] = s[i]

RECURSIVE int(_)
(* int() of a string of digits *)
int(s) ==
    IF s = <<>> THEN 0
    ELSE 10 * int(SubSeq(s, 1, Len(s) - 1))
         + (CHOOSE d \in 0..9 : Digits[d + 1] = s[Len(s)])

(* the x-rate-limit-reset header of a response *)
NoHeader == [present |-> FALSE, value |-> <<>>]
ResetHeaders ==
    {NoHeader} \cup
    {[present |-> TRUE, value |-> v] : v \in {<<>>, <<"s", "o", "o", "n">>, <<"1">>, <<"3">>}}

(* what the transport may do with a request: answer it, or raise (status 0) *)
XResponses ==
    {[status |-> 200, reset |-> NoHeader, body_ok |-> b] : b \in BOOLEAN} \cup
    {[status |-> 429, reset |-> h, body_ok |-> FALSE] : h \in ResetHeaders} \cup
    {[status |-> 500, reset |-> NoHeader, body_ok |-> FALSE]} \cup
    {[status |-> 0, reset |-> NoHeader, body_ok |-> FALSE]}

IdleX ==
    [pc |-> "idle", op |-> "", calls |-> 0, wake |-> 0, resps |-> <<>>,
     result |-> ""]

(* lines 32-36: the delay that keeps the minimum spacing *)
SpacingDelay(ts, t) ==
    IF ts = None THEN 0 ELSE Max(0, x_min_seconds_between_calls - (t - ts))

(* a retry that waits for nothing *)
NoWait(reset, t) == 0

(* line 43: wait_for *)
wait_for(reset, t) == Max(0, int(reset) - t + 1)

(* a client that never retries *)
NeverRetries(resp, attempt) == FALSE

(* lines 40-42: the first answer is a 429 whose reset header is a number *)
Retries(resp, attempt) ==
    /\ attempt = 1
    /\ resp.status = 429
    /\ resp.reset.present /\ resp.reset.value # <<>> /\ isdigit(resp.reset.value)

(* lines 31-36: an operation is called and computes its spacing delay *)
XCall(t) ==
    /\ xop[t].pc \in {"idle", "done"}
    /\ \E op \in XOperations :
         LET delay == SpacingDelay(last_call_ts, now) IN
         xop' = [xop EXCEPT ![t] =
                   [IdleX EXCEPT !.op = op,
                                 !.pc = IF delay > 0 THEN "sleep" ELSE "send",
                                 !.wake = now + delay]]
    /\ UNCHANGED <<ingestVars, auxVars, swarmVars, x_bearer_token, now, last_call_ts, last_sent>>

(* lines 36 and 44: time.sleep is over *)
XWake(t) ==
    /\ xop[t].pc = "sleep" /\ now >= xop[t].wake
    /\ xop' = [xop EXCEPT ![t].pc = "send"]
    /\ UNCHANGED <<ingestVars, auxVars, swarmVars, x_bearer_token, now, last_call_ts, last_sent>>

(* lines 39 and 45: _bearer_headers raises without a token; otherwise the
   transport is invoked *)
XSend(t) ==
    /\ xop[t].pc = "send"
    /\ xop' = IF x_bearer_token
                THEN [xop EXCEPT ![t].pc = "recv", ![t].calls = @ + 1]
                ELSE [xop EXCEPT ![t].pc = "done", ![t].result = "ValueError"]
    /\ last_sent' = IF x_bearer_token THEN now ELSE last_sent
    /\ UNCHANGED <<ingestVars, auxVars, swarmVars, x_bearer_token, now, last_call_ts>>

(* lines 39-48: the transport's answer, the retry decision, raise_for_status,
   the write of _last_call_ts and the parse of the body *)
XRecv(t) ==
    /\ xop[t].pc = "recv"
    /\ \E resp \in XResponses :
         LET resps == Append(xop[t].resps, resp) IN
         IF resp.status = 0
         THEN /\ xop' = [xop EXCEPT ![t].pc = "done", ![t].resps = resps,
                                    ![t].result = "RequestException"]
              /\ last_call_ts' = last_call_ts
         ELSE IF Retries(resp, xop[t].calls)
         THEN /\ xop' = [xop EXCEPT ![t].pc = "sleep", ![t].resps = resps,
                                    ![t].wake = now + wait_for(resp.reset.value, now)]
              /\ last_call_ts' = last_call_ts
         ELSE IF resp.status >= 400
         THEN /\ xop' = [xop EXCEPT ![t].pc = "done", ![t].resps = resps,
                                    ![t].result = "HTTPError"]
              /\ last_call_ts' = last_call_ts
         ELSE /\ xop' = [xop EXCEPT ![t].pc = "done", ![t].resps = resps,
                                    ![t].result = IF resp.body_ok THEN "payload"
                                                  ELSE "JSONDecodeError"]
              /\ last_call_ts' = now
    /\ UNCHANGED <<ingestVars, auxVars, swarmVars, x_bearer_token, now, last_sent>>

(* a second passes *)
Tick ==
    /\ now < MaxClock
    /\ now' = now + 1
    /\ UNCHANGED <<ingestVars, auxVars, swarmVars, x_bearer_token, last_call_ts, last_sent, xop>>

----------------------------------------------------------------------------
(* Chapter briefs (services/swarm.py ensure_briefs, api/briefs.py).  A brief *)
(* is [silo_number, content]: content stands for title, goal, outline,       *)
(* notes and status together, "default" as ensure_briefs creates them and    *)
(* "edited" once update_brief has written them.                              *)

(* the chapter brief table as the specification describes its rows: scoped
   by topic, one row per insert, no constraint across rows *)
ChapterBrief(silo_num) == [silo_number |-> silo_num, content |-> "default"]

EnsureCallers == 1..MaxCallers
BriefOperations == {"run_swarm", "list_briefs", "update_brief"}
IdleEnsure == [pc |-> "idle", op |-> "none", existing |-> {}, silo |-> None]

(* line 179: the silo numbers of the rows the select returned *)
Existing(rows) == {rows[i].silo_number : i \in 1..Len(rows)}

(* lines 180-192: a brief for every silo of SILO_TITLES not in `existing`,
   in the order of SILO_TITLES *)
MissingBriefs(existing) ==
    LET missing == InOrder(Silos \ existing)
    IN [i \in 1..Len(missing) |-> ChapterBrief(missing[i])]

(* lines 175-179: a caller enters ensure_briefs; the select is answered *)
EnsureSelect(k) ==
    /\ eb[k].pc = "idle"
    /\ \E op \in BriefOperations, silo \in Silos :
         eb' = [eb EXCEPT ![k] = [pc |-> "add", op |-> op,
                                  existing |-> Existing(briefs),
                                  silo |-> IF op = "update_brief" THEN silo ELSE None]]
    /\ UNCHANGED <<ingestVars, swarmVars, xVars, chunkVars, briefs>>

(* lines 180-193: the missing briefs are added and committed; run_swarm and
   list_briefs go on without writing to the table *)
EnsureCommit(k) ==
    /\ eb[k].pc = "add"
    /\ briefs' = briefs \o MissingBriefs(eb[k].existing)
    /\ eb' = [eb EXCEPT ![k].pc = IF eb[k].op = "update_brief" THEN "update"
                                  ELSE "idle"]
    /\ UNCHANGED <<ingestVars, swarmVars, xVars, chunkVars>>

(* api/briefs.py 44-67: update_brief after ensure_briefs; scalar_one_or_none
   raises when the select matches more than one row *)
UpdateBrief(k) ==
    /\ eb[k].pc = "update"
    /\ LET matches == {i \in 1..Len(briefs) : briefs[i].silo_number = eb[k].silo}
       IN IF Cardinality(matches) = 1
          THEN briefs' = [i \in 1..Len(briefs) |->
                            IF i \in matches
                            THEN [briefs[i] EXCEPT !.content = "edited"]
                            ELSE briefs[i]]
          ELSE briefs' = briefs
    /\ eb' = [eb EXCEPT ![k].pc = "idle"]
    /\ UNCHANGED <<ingestVars, swarmVars, xVars, chunkVars>>

----------------------------------------------------------------------------
(* The chunker (services/ingestion.py chunk_text).  A text is a sequence of *)
(* characters; two letters, the newline and the space are enough to tell    *)
(* paragraphs apart and to put whitespace at their ends.                    *)

NL == "\n"
Whitespace == {NL, " "}
Chars == {"a", "b"} \cup Whitespace
Texts == UNION {[1..n -> Chars] : n \in 0..MaxText}
NotCalled == <<"not called">>

RECURSIVE split(_, _)
(* str.split("\n\n"): the pieces between the separators found from left to
   right; `piece` is the piece being read *)
split(s, piece) ==
    IF s = <<>> THEN <<piece>>
    ELSE IF Len(s) >= 2 /\ s[1] = NL /\ s[2] = NL
    THEN <<piece>> \o split(SubSeq(s, 3, Len(s)), <<>>)
    ELSE split(Tail(s), Append(piece, Head(s)))

RECURSIVE lstrip(_)
lstrip(s) == IF s # <<>> /\ Head(s) \in Whitespace THEN lstrip(Tail(s)) ELSE s

RECURSIVE rstrip(_)
rstrip(s) ==
    IF s # <<>> /\ s[Len(s)] \in Whitespace THEN rstrip(SubSeq(s, 1, Len(s) - 1))
    ELSE s

(* str.strip() *)
strip(s) == rstrip(lstrip(s))

(* line 93: the pieces that are not blank, as they are *)
Paragraphs(text) == SelectSeq(split(text, <<>>), LAMBDA p : strip(p) # <<>>)

(* a test that forgets the separator *)
FitsWithoutSeparator(current, para, max_chars) ==
    Len(current) + Len(para) <= max_chars

(* line 97, negated: the paragraph goes into the current chunk *)
Fits(current, para, max_chars) ==
    Len(current) + Len(para) + 2 <= max_chars

RECURSIVE ChunkLoop(_, _, _, _)
(* lines 94-104: the loop over the paragraphs and the last chunk *)
ChunkLoop(paragraphs, current, chunks, max_chars) ==
    IF paragraphs = <<>>
    THEN IF current # <<>> THEN Append(chunks, strip(current)) ELSE chunks
    ELSE LET para == Head(paragraphs) IN
         IF ~Fits(current, para, max_chars)
         THEN ChunkLoop(Tail(paragraphs), para,
                        IF current # <<>> THEN Append(chunks, strip(current))
                        ELSE chunks,
                        max_chars)
         ELSE ChunkLoop(Tail(paragraphs),
                        IF current # <<>> THEN current \o <<NL, NL>> \o para
                        ELSE para,
                        chunks, max_chars)

(* lines 92-105 *)
chunk_text(text, max_chars) == ChunkLoop(Paragraphs(text), <<>>, <<>>, max_chars)

(* a call of chunk_text *)
ChunkText ==
    /\ chunk_out = NotCalled
    /\ chunk_out' = chunk_text(chunk_in.text, chunk_in.max_chars)
    /\ UNCHANGED <<ingestVars, swarmVars, xVars, briefVars, chunk_in>>

----------------------------------------------------------------------------
(* Specifications *)

NoStatus == [running |-> FALSE, last_cycle |-> 0, stop_requested |-> FALSE]

InitIngest ==
    /\ store = <<>>
    /\ inbox = <<>>
    /\ drafts = [s \in Silos |-> 0]
    /\ qlast = NoQueueCall
    /\ ing = IdleIngest
    /\ fail_log = <<>>
    /\ succ_log = <<>>
    /\ x_max_calls_per_run \in 0..MaxXCalls
    /\ ap = IdleAp
    /\ ap_log = <<>>
    /\ ap_status = NoStatus
    /\ stop_file = FALSE

(* the topic after a first run_swarm that completed the chapters of
   `drafted` (none, some or all of them) *)
InitSwarm ==
    /\ swarm_max_parallel \in 1..MaxParallel
    /\ task = [c \in Chapters |-> NoTask]
    /\ sem = NewSemaphore(swarm_max_parallel)
    /\ \E drafted \in SUBSET Chapters :
         /\ sw = [IdleSwarm EXCEPT !.run = 1]
         /\ art = [c \in Chapters |->
                     IF c \in drafted THEN CompletedArtifacts(NoArtifacts, 1)
                     ELSE NoArtifacts]
         /\ swarm_log = [i \in 1..Cardinality(drafted) |->
                           [run |-> 1, silo |-> InOrder(drafted)[i]]]

InitX ==
    /\ x_bearer_token \in BOOLEAN
    /\ now = 0
    /\ last_call_ts = None
    /\ last_sent = None
    /\ xop = [t \in XThreads |-> IdleX]

(* a subsystem that takes no step in a specification starts with one
   setting of its deployment *)
IngestAtRest == InitIngest /\ x_max_calls_per_run = MaxXCalls
SwarmAtRest == InitSwarm /\ swarm_max_parallel = 1 /\ swarm_log = <<>>
(* a topic that has just been created: no brief yet, no call in progress *)
InitBriefs ==
    /\ briefs = <<>>
    /\ eb = [k \in EnsureCallers |-> IdleEnsure]

XAtRest == InitX /\ x_bearer_token
(* chunk_text about to be called with some text and some max_chars *)
InitChunker ==
    /\ chunk_in \in [text : Texts, max_chars : 0..MaxChars]
    /\ chunk_out = NotCalled

ChunkerAtRest == InitChunker /\ chunk_in = [text |-> <<>>, max_chars |-> 0]
AuxAtRest == InitBriefs /\ ChunkerAtRest

(* queue_sources and run_ingest called one after the other, in any order *)
Init == InitIngest /\ SwarmAtRest /\ XAtRest /\ AuxAtRest

Next ==
    \/ QueueSources
    \/ RunIngest
    \/ IngestSkip
    \/ IngestFetch
    \/ IngestChunk
    \/ IngestSourceDone
    \/ IngestReturn

Spec == Init /\ [][Next]_vars

(* the same calls, with a run_ingest that may die at any point of its loop *)
NextCrash ==
    \/ Next
    \/ IngestCrash

SpecCrash == Init /\ [][NextCrash]_vars

(* the same calls, with a success log that may refuse a record *)
NextLogFail ==
    \/ Next
    \/ IngestLogSuccessRaises

SpecLogFail == Init /\ [][NextLogFail]_vars

(* queue_sources alone, called again and again *)
NextQueue == QueueSourcesCall
SpecQueue == Init /\ [][NextQueue]_vars

(* queue_sources called again and again, with commits that may fail *)
NextQueueFail ==
    \/ QueueSources
    \/ QueueSourcesCommitFails

SpecQueueFail == Init /\ [][NextQueueFail]_vars

(* run_autopilot, started and stopped through its endpoints; every cycle
   calls queue_sources twice and then run_ingest *)
NextAutopilot ==
    \/ StartAutopilot
    \/ ApBegin
    \/ ApLoopEnds
    \/ ApDiscover
    \/ ApDiscoverRaises
    \/ ApQueueCse
    \/ ApIngest
    \/ IngestSkip
    \/ IngestFetch
    \/ IngestChunk
    \/ IngestSourceDone
    \/ IngestReturn
    \/ ApRecord
    \/ ApCooldown
    \/ ApExit
    \/ StopRequest

SpecAutopilot == Init /\ [][NextAutopilot]_vars

(* the same, with start requests that arrive while the loop is running *)
NextAutopilotRace ==
    \/ NextAutopilot
    \/ StartWhileRunning

(* the installation has no budget for social calls *)
InitRace == Init /\ x_max_calls_per_run = 0

SpecAutopilotRace == InitRace /\ [][NextAutopilotRace]_vars

(* run_swarm, called again and again, one run at a time *)
InitSwarmRuns == IngestAtRest /\ InitSwarm /\ XAtRest /\ AuxAtRest

NextSwarm ==
    \/ RunSwarm
    \/ RunSwarmRaises
    \/ \E c \in Chapters : TaskStart(c)
    \/ \E c \in Chapters : TaskContext(c)
    \/ \E c \in Chapters : TaskResearch(c)
    \/ \E c \in Chapters : TaskWrite(c)
    \/ \E c \in Chapters : TaskReview(c)
    \/ SwarmReturn

SpecSwarm == InitSwarmRuns /\ [][NextSwarm]_vars

(* the event loop runs every task that can go on, every awaited call comes
   back or raises, and gather returns once it has every result *)
FairSpecSwarm ==
    /\ SpecSwarm
    /\ \A c \in Chapters : WF_vars(TaskStep(c))
    /\ WF_vars(SwarmReturn)

(* the X client operations, called from worker threads *)
InitXCalls == IngestAtRest /\ SwarmAtRest /\ InitX /\ AuxAtRest

NextX ==
    \/ \E t \in XThreads : XCall(t)
    \/ \E t \in XThreads : XWake(t)
    \/ \E t \in XThreads : XSend(t)
    \/ \E t \in XThreads : XRecv(t)
    \/ Tick

SpecX == InitXCalls /\ [][NextX]_vars

(* ensure_briefs called by run_swarm and by the brief endpoints, the calls
   of different requests interleaving at their awaits *)
InitBriefCalls == IngestAtRest /\ SwarmAtRest /\ XAtRest /\ InitBriefs /\ ChunkerAtRest

NextBriefs ==
    \/ \E k \in EnsureCallers : EnsureSelect(k)
    \/ \E k \in EnsureCallers : EnsureCommit(k)
    \/ \E k \in EnsureCallers : UpdateBrief(k)

SpecBriefs == InitBriefCalls /\ [][NextBriefs]_vars

(* chunk_text called once on any text, with any max_chars *)
InitChunkCalls == IngestAtRest /\ SwarmAtRest /\ XAtRest /\ InitBriefs /\ InitChunker

NextChunk == ChunkText

SpecChunk == InitChunkCalls /\ [][NextChunk]_vars

----------------------------------------------------------------------------
(* Claims about the source queue *)

RowsWithUrl(rows, u) == {i \in 1..Len(rows) : rows[i].url = u}

(* C1: after any sequence of queue_sources calls the store holds at most one
   row per (topic, url), whatever the input lists were. *)
C1_AtMostOneRowPerUrl ==
    \A u \in Urls : Cardinality(RowsWithUrl(store, u)) <= 1

(* C2: a queue_sources call that repeats the input of the call before it
   returns 0 and adds no row, and the store then holds exactly one row for
   every URL of the list. *)
C2_IdempotentQueueing ==
    qlast.repeat =>
        /\ qlast.ret = 0
        /\ Len(store) = qlast.rows_before
        /\ \A i \in 1..Len(qlast.urls) :
              Cardinality(RowsWithUrl(store, qlast.urls[i].url)) = 1

----------------------------------------------------------------------------
(* Claims about the ingestion runner *)

Last(q) == q[Len(q)]

(* the step hands a source to fetch_and_clean *)
FetchStep == ing'.processed = ing.processed + 1

(* the step is taken by run_ingest while it works on a source *)
IngestStepOnSource ==
    ing.pc \in {"next", "chunks"} /\ ing.idx <= Len(ing.sources) /\ ing' # ing

(* C3: a source's status changes only from pending to extracted or failed,
   and only in a step of run_ingest working on that source; a source is
   handed to fetch only while it is pending, so an extracted or failed
   source is never fetched or modified again; rows are never removed and
   their url and label never change. *)
C3_StatusLifecycle ==
    [][ /\ Len(store') >= Len(store)
        /\ \A i \in 1..Len(store) :
              /\ store'[i].url = store[i].url
              /\ store'[i].source = store[i].source
              /\ store'[i].status # store[i].status =>
                    /\ store[i].status = "pending"
                    /\ store'[i].status \in {"extracted", "failed"}
                    /\ IngestStepOnSource /\ CurRow = i
        /\ FetchStep => store[CurRow].status = "pending"
      ]_vars

(* a second cycle's run_ingest has finished while the store holds an
   extracted and a failed source *)
C3_Witness ==
    /\ ap.pc = "ingest" /\ ap.cycle = 2 /\ ing.pc = "done"
    /\ \E i, j \in 1..Len(store) :
          store[i].status = "extracted" /\ store[j].status = "failed"

RunSources == {ing.sources[k] : k \in 1..Len(ing.sources)}
RunWithStatus(st) == {r \in RunSources : store[r].status = st}

(* C4 as claimed: when exactly one of the N pending sources of a run raises,
   the run returns processed = N, failed = 1, extracted = N - 1, the failing
   source is failed and every other source extracted. *)
C4_AllProcessedOneFailure ==
    (ing.pc = "done" /\ ing.failed = 1) =>
        /\ ing.processed = Len(ing.sources)
        /\ ing.extracted = Len(ing.sources) - 1
        /\ Cardinality(RunWithStatus("failed")) = 1
        /\ Cardinality(RunWithStatus("extracted")) = Len(ing.sources) - 1

(* C4, amended: when exactly one source of a run raises, every pending
   source that is not skipped for the social-call budget is processed:
   with S sources skipped (left pending; all of them social URLs, and only
   when the budget is used up), processed = N - S, failed = 1,
   extracted = N - S - 1, the failing source is failed and every other
   processed source extracted. *)
C4_PartialFailureIsolation ==
    (ing.pc = "done" /\ ing.failed = 1) =>
        LET skipped == RunWithStatus("pending") IN
        /\ ing.processed = Len(ing.sources) - Cardinality(skipped)
        /\ ing.extracted = ing.processed - 1
        /\ Cardinality(RunWithStatus("failed")) = 1
        /\ Cardinality(RunWithStatus("extracted")) = ing.extracted
        /\ \A r \in skipped : is_x_url(store[r].url)
        /\ skipped # {} => ing.x_calls >= x_max_calls_per_run

(* a run over three sources has ended; the first one failed and the two
   after it were extracted *)
C4_Witness ==
    /\ ing.pc = "done" /\ ing.failed = 1 /\ Len(ing.sources) = 3
    /\ store[ing.sources[1]].status = "failed"
    /\ store[ing.sources[2]].status = "extracted"
    /\ store[ing.sources[3]].status = "extracted"

(* C5 as claimed: an append that would take a chapter over the per-chapter
   cap, or the book over the total cap, does not happen. *)
C5_NeverExceedsCap ==
    [][ /\ \A s \in Silos :
              drafts[s] <= draft_max_words_per_silo =>
              drafts'[s] <= draft_max_words_per_silo
        /\ DraftWordcountTotal(drafts) <= draft_max_words_total =>
              DraftWordcountTotal(drafts') <= draft_max_words_total
      ]_vars

(* the step is one pass of run_ingest's chunk loop *)
ChunkStep == ing.pc = "chunks" /\ ing.chunks_left > 0 /\ ing' # ing

FailsWith(reasons) ==
    /\ store'[CurRow].status = "failed"
    /\ Len(fail_log') = Len(fail_log) + 1
    /\ Last(fail_log').row = CurRow
    /\ Last(fail_log').reason \in reasons

(* C5, amended: no chapter's draft word count ever decreases; words are
   appended to a chapter only while, before the append, its count is below
   the per-chapter cap and the total is below the total cap (the caps are
   checked before the block is produced, so the last block may take a count
   past its cap); a chunk reached with the total at or past the total cap
   fails the source with draft_total_cap, and a chunk routed by a forced
   silo to a chapter at or past its cap fails it with draft_silo_cap. *)
C5_CapMonotonicity ==
    [][ /\ \A s \in Silos :
              /\ drafts'[s] >= drafts[s]
              /\ drafts'[s] # drafts[s] =>
                    /\ ChunkStep
                    /\ drafts[s] < ing.max_per_silo
                    /\ DraftWordcountTotal(drafts) < ing.max_total
        /\ ChunkStep /\ DraftWordcountTotal(drafts) >= ing.max_total =>
              FailsWith({"draft_total_cap"})
        /\ ( /\ ChunkStep /\ DraftWordcountTotal(drafts) < ing.max_total
             /\ ing.forced_silo # None
             /\ drafts[ing.forced_silo] >= ing.max_per_silo ) =>
              FailsWith({"draft_silo_cap"})
      ]_vars

(* one source failed on the per-chapter cap, another on the total cap, and
   the book has gone past the total cap with its last block *)
C5_Witness ==
    /\ \E i, j \in 1..Len(fail_log) :
          /\ fail_log[i].reason = "draft_silo_cap"
          /\ fail_log[j].reason = "draft_total_cap"
    /\ DraftWordcountTotal(drafts) > draft_max_words_total

(* C6: a fetched text with fewer than ingest_min_words words makes the
   source failed with logged reason too_short, changes no draft
   accumulator, and counts once in processed and failed and not in
   extracted; a run over that single source returns processed = 1,
   extracted = 0, failed = 1. *)
C6_TooShortGate ==
    [][ ( /\ FetchStep
          /\ ing'.text_words # None
          /\ ing'.text_words < ingest_min_words ) =>
            /\ FailsWith({"too_short"})
            /\ drafts' = drafts
            /\ succ_log' = succ_log
            /\ ing'.failed = ing.failed + 1
            /\ ing'.extracted = ing.extracted
            /\ ing'.pc = "next" /\ ing'.idx = ing.idx + 1
            /\ Len(ing.sources) = 1 =>
                  ing'.processed = 1 /\ ing'.extracted = 0 /\ ing'.failed = 1
      ]_vars

(* a run over a single source whose text was one word short has returned *)
C6_Witness ==
    /\ ing.pc = "done" /\ Len(ing.sources) = 1
    /\ ing.text_words = ingest_min_words - 1
    /\ ing.processed = 1 /\ ing.extracted = 0 /\ ing.failed = 1
    /\ Last(fail_log).reason = "too_short"

----------------------------------------------------------------------------
(* Claims about the swarm orchestrator *)

FailedChapters == {c \in sw.selected : task[c].pc = "failed"}
DoneChapters == {c \in sw.selected : task[c].pc = "done"}
CompletedFor(c) == {i \in 1..Len(sw.completed) : sw.completed[i].silo = c}
LoggedFor(c) ==
    {i \in 1..Len(swarm_log) : swarm_log[i] = [run |-> sw.run, silo |-> c]}

(* C7 as claimed: when run_swarm returns, every chapter task has ended,
   len(completed) + len(errors) is the number of selected chapters, and a
   chapter one of whose generation calls (research memo, prose, review)
   raised has one errors entry, no completed record, and its draft artifact
   as it was before the run. *)
C7_FailedDraftLeftAsItWas ==
    sw.pc = "returned" =>
        /\ \A c \in sw.selected : task[c].pc \in {"done", "failed"}
        /\ Len(sw.completed) + Len(sw.errors) = Cardinality(sw.selected)
        /\ Len(sw.errors) = Cardinality(FailedChapters)
        /\ \A c \in FailedChapters :
              task[c].err \in {"research", "write", "review"} =>
                  /\ CompletedFor(c) = {}
                  /\ art[c].draft = sw.before[c].draft

(* C7, amended: when run_swarm returns, every chapter task has ended,
   len(completed) + len(errors) is the number of selected chapters, every
   failed chapter has one errors entry, no completed record and no log
   record, and every other selected chapter is completed with its new draft.
   A chapter that failed before its prose was generated (context, research
   memo or prose call raised) has all its artifacts as they were before the
   run.  A chapter that failed after its prose was generated (the review call
   raised, or the review is not an object) has the whole new draft written,
   and its previous draft, if it had one, is in the backup unless the copy
   failed; when it is the review call that raised, review and sources
   manifest are as they were. *)
C7_SwarmFailureIsolation ==
    sw.pc = "returned" =>
        /\ \A c \in sw.selected : task[c].pc \in {"done", "failed"}
        /\ Len(sw.completed) + Len(sw.errors) = Cardinality(sw.selected)
        /\ Len(sw.errors) = Cardinality(FailedChapters)
        /\ Len(sw.completed) = Cardinality(DoneChapters)
        /\ \A c \in DoneChapters :
              /\ Cardinality(CompletedFor(c)) = 1
              /\ Cardinality(LoggedFor(c)) = 1
              /\ art[c].draft = sw.run /\ art[c].review.run = sw.run
        /\ \A c \in FailedChapters :
              /\ CompletedFor(c) = {} /\ LoggedFor(c) = {}
              /\ task[c].err \in {"context", "research", "write"} =>
                    art[c] = sw.before[c]
              /\ task[c].err \in {"review", "record"} =>
                    /\ art[c].draft = sw.run
                    /\ art[c].prev \in {sw.before[c].draft, sw.before[c].prev, Truncated}
              /\ task[c].err = "review" =>
                    /\ art[c].review = sw.before[c].review
                    /\ art[c].sources = sw.before[c].sources
        /\ \A c \in Chapters \ sw.selected : art[c] = sw.before[c]

(* a run over three chapters has returned; the prose call of one chapter
   that had a draft raised, and the two others completed *)
C7_Witness ==
    /\ sw.pc = "returned" /\ Cardinality(sw.selected) = 3
    /\ Len(sw.completed) = 2 /\ Len(sw.errors) = 1
    /\ \E c \in FailedChapters :
          /\ task[c].err = "write"
          /\ sw.before[c].draft # Absent
          /\ art[c].draft = sw.before[c].draft

(* the chapters whose pipeline holds a permit *)
Holders == {c \in Chapters : task[c].pc \in {"context", "research", "write", "review"}}

(* C8: at every moment at most swarm_max_parallel chapter pipelines are
   executing; the permits out are exactly those of the pipelines between the
   start of context gathering and the end of the step that appends the
   result record; a chapter waits only while no permit is free; a pipeline
   that ends, by return or by exception, leaves the holders, its permit free
   or passed to the first waiter; and every chapter handed to gather
   eventually ends its pipeline. *)
C8_BoundedParallelism ==
    /\ [](/\ Cardinality(Holders) <= swarm_max_parallel
          /\ sem.value = swarm_max_parallel - Cardinality(Holders)
          /\ {sem.waiters[i] : i \in 1..Len(sem.waiters)}
                = {c \in Chapters : task[c].pc = "waiting"}
          /\ sem.waiters # <<>> => Cardinality(Holders) = swarm_max_parallel)
    /\ [][ /\ Len(swarm_log') > Len(swarm_log) =>
                Last(swarm_log').silo \in Holders \ Holders'
           /\ \A c \in Chapters :
                (task'[c].pc \in {"done", "failed"} /\ task[c].pc # task'[c].pc) =>
                    /\ c \in Holders
                    /\ IF sem.waiters # <<>>
                       THEN Head(sem.waiters) \in Holders' /\ sem'.value = sem.value
                       ELSE sem'.value = sem.value + 1
         ]_vars
    /\ \A c \in Chapters :
          (task[c].pc \in {"new", "waiting"}) ~> (task[c].pc \in {"done", "failed"})

(* every permit is out, a chapter waits, and a chapter that failed has
   already given its permit back *)
C8_Witness ==
    /\ Cardinality(Holders) = swarm_max_parallel
    /\ \E c \in Chapters : task[c].pc = "waiting"
    /\ \E c \in Chapters : task[c].pc = "failed"

----------------------------------------------------------------------------
(* Claims about the X client *)

Normal(resp) == resp.status = 200 /\ resp.body_ok
NumericReset(resp) ==
    /\ resp.status = 429 /\ resp.reset.present
    /\ isdigit(resp.reset.value)

(* the operation of thread t has ended, its first request was answered with
   a 429, and no retry was answered otherwise than normally *)
RateLimitedThenNormal(t) ==
    /\ xop[t].pc = "done" /\ Len(xop[t].resps) >= 1
    /\ xop[t].resps[1].status = 429
    /\ Len(xop[t].resps) = 2 => Normal(xop[t].resps[2])

(* C9 as claimed: an operation whose first request is answered with a 429
   and whose next request the transport answers normally returns the
   payload and has invoked the transport exactly twice. *)
C9_RetryAfterAny429 ==
    \A t \in XThreads :
        RateLimitedThenNormal(t) =>
            xop[t].result = "payload" /\ xop[t].calls = 2

(* C9, amended: an operation whose first request is answered with a 429
   carrying a numeric x-rate-limit-reset header, and whose next request the
   transport answers normally, returns the payload and has invoked the
   transport exactly twice; after a 429 without a numeric reset header the
   operation fails with the HTTP error, having invoked the transport once. *)
C9_RateLimitBackoff ==
    \A t \in XThreads :
        RateLimitedThenNormal(t) =>
            IF NumericReset(xop[t].resps[1])
            THEN /\ xop[t].result = "payload" /\ xop[t].calls = 2
                 /\ Len(xop[t].resps) = 2
            ELSE /\ xop[t].result = "HTTPError" /\ xop[t].calls = 1
                 /\ Len(xop[t].resps) = 1

(* an operation was answered 429 with a numeric reset header, then
   normally, and has returned the payload after two requests *)
C9_Witness ==
    \E t \in XThreads :
        /\ xop[t].pc = "done" /\ xop[t].calls = 2
        /\ NumericReset(xop[t].resps[1]) /\ Normal(xop[t].resps[2])
        /\ xop[t].result = "payload"

(* C10: no operation invokes the transport more than twice; a second
   request is sent only after a 429 with a numeric reset header, after a
   wait that is never negative, and not before the reset time; when the
   second answer is a 429 too the operation ends with the HTTP error and
   the shared last-call timestamp is not written. *)
C10_RetryOnceAfterReset ==
    [][ \A t \in XThreads :
          /\ xop'[t].calls <= 2
          /\ (xop[t].pc = "recv" /\ xop'[t].pc = "sleep") =>
                /\ xop[t].calls = 1
                /\ NumericReset(xop'[t].resps[1])
                /\ xop'[t].wake >= now
                /\ xop'[t].wake >= int(xop'[t].resps[1].reset.value)
                /\ last_call_ts' = last_call_ts
          /\ (xop[t].calls = 1 /\ xop'[t].calls = 2) =>
                /\ NumericReset(xop[t].resps[1])
                /\ now >= int(xop[t].resps[1].reset.value)
          /\ ( /\ xop[t].pc = "recv" /\ xop[t].calls = 2
               /\ xop'[t].pc # "recv" ) =>
                /\ xop'[t].pc = "done"
                /\ xop'[t].resps[2].status = 429 =>
                      /\ xop'[t].result = "HTTPError"
                      /\ last_call_ts' = last_call_ts
      ]_vars

(* an operation has waited for the reset time, retried, got a second 429 and
   ended with the HTTP error *)
C10_Witness ==
    \E t \in XThreads :
        /\ xop[t].pc = "done" /\ xop[t].calls = 2
        /\ xop[t].resps[1].status = 429 /\ xop[t].resps[2].status = 429
        /\ xop[t].result = "HTTPError"
        /\ now > int(xop[t].resps[1].reset.value)

(* C11: whichever operations and threads send them, a request is not sent
   until at least x_min_seconds_between_calls after the request sent before
   it. *)
C11_SharedMinimumSpacing ==
    [][ \A t \in XThreads :
          (xop'[t].calls = xop[t].calls + 1 /\ last_sent # None) =>
              now - last_sent >= x_min_seconds_between_calls
      ]_vars

----------------------------------------------------------------------------
(* Claims about the autopilot loop *)

(* the step does the first work of a cycle: pending count and discovery *)
CycleWorkBegins == ap.pc = "cycle" /\ ap'.pc \in {"queue_cse", "aborted"}

WordcountReached(r) ==
    ap.stop_wordcount # None /\ ap.stop_wordcount > 0
        /\ r.draft_words >= ap.stop_wordcount
NothingNew(r) == ap.stop_on_no_new /\ r.queued = 0 /\ r.ingest.processed = 0

(* C12: the work of a cycle after the first begins only if the stop sentinel
   is absent and the record of the cycle before shows neither the target
   word count reached nor, with stop_on_no_new, nothing queued and nothing
   processed; a cycle whose record shows one of the two is followed by the
   exit step, and a loop that finds the sentinel at the top of a cycle goes
   to the exit step; after that the loop queues and ingests nothing. *)
C12_StopConditions ==
    [][ /\ (CycleWorkBegins /\ ap.cycle >= 2) =>
              /\ ~stop_file
              /\ Last(ap_log).cycle = ap.cycle - 1
              /\ ~WordcountReached(Last(ap_log))
              /\ ~NothingNew(Last(ap_log))
        /\ (ap.pc = "ingest" /\ ap'.pc # "ingest") =>
              /\ Len(ap_log') = Len(ap_log) + 1
              /\ (WordcountReached(Last(ap_log')) \/ NothingNew(Last(ap_log')))
                    <=> ap'.pc = "exit"
        /\ (ap.pc = "cycle" /\ stop_file /\ ap' # ap) => ap'.pc = "exit"
        /\ ap.pc = "exit" =>
              /\ ap'.pc \in {"exit", "idle"}
              /\ store' = store /\ inbox' = inbox /\ drafts' = drafts /\ ing' = ing
      ]_vars

(* the first of two allowed cycles reached the target word count and the
   loop is at its exit step, the sentinel absent *)
C12_Witness ==
    /\ ap.pc = "exit" /\ ap.max_cycles = 2 /\ ap.cycle = 1 /\ ~stop_file
    /\ Len(ap_log) = 1 /\ WordcountReached(Last(ap_log))
    /\ ~NothingNew(Last(ap_log))

(* C13: the first thing run_autopilot does is write a status snapshot with
   running = true, before any cycle; a loop that ends by the sentinel, the
   target word count, convergence or the end of its cycles leaves through
   the exit step, and that step writes a snapshot with running = false, the
   last one the loop writes, and leaves the sentinel absent. *)
C13_StatusAndSentinelOnExit ==
    [][ /\ (ap.pc = "scheduled" /\ ap'.pc # "scheduled") =>
              /\ ap'.pc = "cycle" /\ ap'.cycle = 1
              /\ ap_status'.running
              /\ ap_log' = ap_log /\ store' = store
        /\ (ap.pc = "exit" /\ ap'.pc # "exit") =>
              /\ ap'.pc = "idle"
              /\ ~ap_status'.running /\ ~ap_status'.stop_requested
              /\ ~stop_file'
        /\ (ap'.pc = "idle" /\ ap.pc # "idle") => ap.pc = "exit"
        /\ (ap.pc \in {"cycle", "ingest"} /\ ap'.pc \notin {"cycle", "ingest"}) =>
              ap'.pc \in {"queue_cse", "aborted", "cooldown", "exit"}
        /\ (ap.pc = "idle" /\ ap'.pc = "idle" /\ ap_status' # ap_status) =>
              ap_status'.stop_requested
      ]_vars

(* a loop allowed two cycles found the sentinel at the top of its second
   cycle and has left: running = false was written last, the sentinel is gone *)
C13_Witness ==
    /\ ap.pc = "idle" /\ ap.max_cycles = 2 /\ ap.cycle = 2 /\ Len(ap_log) = 1
    /\ ap_status = [running |-> FALSE, last_cycle |-> 0, stop_requested |-> FALSE]
    /\ ~stop_file

(* C14: the stop sentinel is checked at the top of every cycle, before any
   work: when the sentinel is present as a cycle would start, the loop's
   step is the one that leaves the loop, and it counts no pending source,
   discovers and queues nothing, starts no ingest and appends no record;
   the steps that begin a cycle's work are taken only with the sentinel
   absent. *)
C14_SentinelBeforeWork ==
    [][ /\ (ap.pc = "cycle" /\ stop_file /\ ap' # ap) =>
              /\ ap' = [ap EXCEPT !.pc = "exit"]
              /\ store' = store /\ inbox' = inbox /\ drafts' = drafts
              /\ ing' = ing /\ ap_log' = ap_log
        /\ CycleWorkBegins => ~stop_file
        /\ (ap.pc = "cycle" /\ stop_file) =>
              /\ Len(store') = Len(store) /\ Len(ap_log') = Len(ap_log)
              /\ ing'.pc = ing.pc
      ]_vars

(* the loop has left at the top of a cycle it was still allowed to run, with
   the sentinel present and pending sources it could have ingested *)
C14_Witness ==
    /\ ap.pc = "exit" /\ stop_file /\ ap.cycle <= ap.max_cycles
    /\ ap.cycle = Len(ap_log) + 1
    /\ PendingCount(store) > 0

(* Claims about commits in run_ingest *)

(* the positions, in the run's list of sources, before the one the run is at *)
Before == {j \in 1..Len(ing.sources) : j < ing.idx}
FromCurrent == {j \in 1..Len(ing.sources) : j >= ing.idx}
Settled(j) == store[ing.sources[j]].status \in {"extracted", "failed"}

(* C15: the status of each source is committed before the next source is
   taken up: when a run has died in its loop, the database shows a status of
   extracted or failed for every source the run processed before the one it
   was at (as many as the run counted extracted and failed; a source passed
   over by the X budget was not processed and is pending), and pending for
   the source it was at and every later one. *)
C15_CommittedBeforeNextSource ==
    ing.pc = "crashed" =>
        /\ Cardinality({j \in Before : Settled(j)}) = ing.extracted + ing.failed
        /\ \A j \in Before :
              \/ Settled(j)
              \/ /\ store[ing.sources[j]].status = "pending"
                 /\ is_x_url(store[ing.sources[j]].url)
        /\ \A j \in FromCurrent : store[ing.sources[j]].status = "pending"

(* the run died while it was on its third source, after one source was
   extracted and one had failed *)
C15_Witness ==
    /\ ing.pc = "crashed" /\ ing.idx = 3 /\ Len(ing.sources) = 3
    /\ ing.processed = 3 /\ ing.extracted = 1 /\ ing.failed = 1
    /\ \A j \in Before : Settled(j)
    /\ store[ing.sources[3]].status = "pending"

(* Claims about the draft backup *)

(* the pipeline of chapter c overwrites a draft that existed *)
Overwrites(c) == art[c].draft # Absent /\ art'[c].draft # art[c].draft

(* C16 as stated: whenever a pipeline overwrites a draft that existed, the
   backup holds, at the overwrite, exactly what the draft held before. *)
C16_BackupAlwaysHoldsPrevious ==
    [][ \A c \in Chapters : Overwrites(c) => art'[c].prev = art[c].draft ]_vars

(* C16, amended: the copy to swarm_draft.prev.md is attempted before the
   overwrite and its OSError is swallowed.  At the overwrite of a draft that
   existed the backup holds what the draft held before if the copy succeeded;
   if the copy failed the overwrite happens all the same and the backup is
   as it was or cut short.  The backup never holds the new text, and a first
   draft is written without touching the backup. *)
C16_BackupBeforeOverwrite ==
    [][ \A c \in Chapters :
          /\ Overwrites(c) =>
                /\ art'[c].draft = sw.run
                /\ art'[c].prev \in {art[c].draft, art[c].prev, Truncated}
                /\ art'[c].prev # art'[c].draft
          /\ (art[c].draft = Absent /\ art'[c].draft # Absent) =>
                art'[c].prev = art[c].prev
          /\ art'[c].prev # art[c].prev => Overwrites(c)
      ]_vars

(* a chapter that had a draft and no backup before the run has been
   overwritten, and the backup holds the earlier draft *)
C16_Witness ==
    \E c \in Chapters :
        /\ sw.before[c].draft # Absent /\ sw.before[c].prev = Absent
        /\ art[c].draft = sw.run /\ art[c].draft # sw.before[c].draft
        /\ art[c].prev = sw.before[c].draft

(* Claims about the review *)

(* a written review that did not come from a JSON object of the model: the
   placeholder of a response that is not JSON, or JSON that is not an object *)
Unparseable(review) ==
    review.kind # "object" \/ review.gaps = "Review parse failed"

(* C17: whatever the model answers to the review request, if the answer is
   not parseable structured review data the review is the default (score 0,
   gaps "Review parse failed") and the chapter completes: review and sources
   manifest are written, the record is logged and the chapter is in
   completed. *)
C17_UnparseableReviewCompletes ==
    sw.pc = "returned" =>
        \A c \in sw.selected :
            (art[c].review.run = sw.run /\ Unparseable(art[c].review)) =>
                /\ art[c].review.score = 0
                /\ art[c].review.gaps = "Review parse failed"
                /\ art[c].sources = sw.run
                /\ task[c].pc = "done"
                /\ Cardinality(CompletedFor(c)) = 1
                /\ Cardinality(LoggedFor(c)) = 1

(* Claims about chapter briefs *)

BriefsOf(s) == {i \in 1..Len(briefs) : briefs[i].silo_number = s}

(* C18: ensure_briefs is an idempotent upsert-if-missing: once a call has
   returned, and after any number of calls, sequential or interleaved, the
   topic has exactly one brief for each silo number, and no call of
   ensure_briefs changes or removes a brief that exists. *)
C18_OneBriefPerSilo ==
    /\ (\E k \in EnsureCallers : eb[k].pc \in {"idle", "update"} /\ eb[k].op # "none") =>
          \A s \in Silos : Cardinality(BriefsOf(s)) = 1
    /\ \A s \in Silos : Cardinality(BriefsOf(s)) <= 1

(* Claims about the chunker *)

RECURSIVE Rejoin(_)
(* the chunks joined again with blank lines between them *)
Rejoin(chunks) ==
    IF chunks = <<>> THEN <<>>
    ELSE IF Len(chunks) = 1 THEN chunks[1]
    ELSE chunks[1] \o <<NL, NL>> \o Rejoin(Tail(chunks))

Stripped(paragraphs) == [i \in 1..Len(paragraphs) |-> strip(paragraphs[i])]

(* no chunk is empty, a chunk longer than max_chars is one paragraph, and an
   empty text gives no chunk *)
ChunkSizes ==
    /\ \A i \in 1..Len(chunk_out) :
          /\ chunk_out[i] # <<>>
          /\ Len(chunk_out[i]) > chunk_in.max_chars =>
                Len(Paragraphs(chunk_out[i])) = 1
    /\ chunk_in.text = <<>> => chunk_out = <<>>

(* C19 as stated: the chunks joined again with blank lines give back the
   original sequence of paragraphs exactly, no chunk is longer than max_chars
   unless it is one paragraph that alone exceeds it, no chunk is empty and
   an empty text gives no chunk. *)
C19_ParagraphsExactly ==
    chunk_out # NotCalled =>
        /\ Paragraphs(Rejoin(chunk_out)) = Paragraphs(chunk_in.text)
        /\ ChunkSizes

(* C19, amended: the chunks joined again with blank lines give back the
   original sequence of non-blank paragraphs, in order, none dropped,
   duplicated or split, each up to the whitespace at its two ends (every
   chunk is stripped); no chunk is longer than max_chars unless it is one
   paragraph that alone exceeds it, no chunk is empty and an empty text
   gives no chunk. *)
C19_ChunkerCorrectness ==
    chunk_out # NotCalled =>
        /\ Stripped(Paragraphs(Rejoin(chunk_out))) = Stripped(Paragraphs(chunk_in.text))
        /\ ChunkSizes

(* a text of three paragraphs came back as two chunks, the first of them
   holding two paragraphs *)
C19_Witness ==
    /\ chunk_out # NotCalled
    /\ Len(Paragraphs(chunk_in.text)) = 3 /\ Len(chunk_out) = 2
    /\ Len(Paragraphs(chunk_out[1])) = 2

(* Claims about the order of a chunk's processing *)

(* C20: every chunk goes through the total-cap check, the classification
   (one model call, none when the source has a forced silo), the per-silo
   cap check, the extraction (one model call) and the append, in that order:
   at or past the total cap no model is called; at or past the chapter's cap
   the extraction is not called; a block is appended only when both checks,
   made just before, found the total below the total cap and the chapter
   below its cap.  A cap failure makes the source failed, ends its chunk
   loop (the run goes to the next source) and appends nothing. *)
C20_ChunkOrder ==
    [][ ChunkStep =>
          /\ \A silo \in ClassifyAnswers, words \in NuggetWords,
                raises \in {"none", "classify", "extract"} :
               LET out == ChunkOutcome(drafts, ing.forced_silo, ing.max_per_silo,
                                       ing.max_total, silo, words, raises)
                   total == DraftWordcountTotal(drafts)
                   classified == IF ing.forced_silo = None THEN <<"classify">>
                                 ELSE <<>>
                   silo_num == IF ing.forced_silo # None THEN ing.forced_silo
                               ELSE silo
               IN /\ total >= ing.max_total =>
                        out.reason = "draft_total_cap" /\ out.calls = <<>>
                  /\ (total < ing.max_total /\ drafts[silo_num] >= ing.max_per_silo
                      /\ ~(ing.forced_silo = None /\ raises = "classify")) =>
                        out.reason = "draft_silo_cap" /\ out.calls = classified
                  /\ out.reason \in {"draft_total_cap", "draft_silo_cap"} =>
                        "extract" \notin {out.calls[i] : i \in 1..Len(out.calls)}
                  /\ out.drafts # drafts =>
                        /\ out.reason = ""
                        /\ out.calls = Append(classified, "extract")
                        /\ total < ing.max_total
                        /\ drafts[silo_num] < ing.max_per_silo
                        /\ out.drafts = [drafts EXCEPT ![silo_num] = @ + words]
                  /\ out.reason # "" => out.drafts = drafts
          /\ Len(fail_log') > Len(fail_log) =>
                /\ store'[CurRow].status = "failed"
                /\ ing'.pc = "next" /\ ing'.idx = ing.idx + 1
                /\ ing'.chunks_left = 0
                /\ ing'.failed = ing.failed + 1
                /\ drafts' = drafts
          /\ Len(fail_log') = Len(fail_log) =>
                /\ store' = store
                /\ ing'.chunks_left = ing.chunks_left - 1
                /\ ing'.pc = "chunks" /\ ing'.idx = ing.idx
      ]_vars

(* a source without a forced silo failed on the cap of the chapter its chunk
   was classified into, after an earlier chunk of a source had been appended *)
C20_Witness ==
    /\ \E i \in 1..Len(fail_log) :
          /\ fail_log[i].reason = "draft_silo_cap"
          /\ ForcedSilo(store[fail_log[i].row].source) = None
    /\ DraftWordcountTotal(drafts) >= draft_max_words_per_silo
    /\ DraftWordcountTotal(drafts) < draft_max_words_total

(* Claims about the quality gates *)

GatesPassed(run) ==
    run.text_words # None /\ run.text_words >= ingest_min_words
    /\ run.topic = "on_topic"

(* C21: the classify and extract calls are made in the chunk loop only, and
   the chunk loop of a source is entered only from the fetch step of that
   source, with a text that has passed the minimum-word gate and the
   topic-term gate; a source rejected as too_short or off_topic fails in its
   fetch step, never enters the chunk loop and changes no draft. *)
C21_GatesBeforeModelCalls ==
    [][ /\ ChunkStep => GatesPassed(ing)
        /\ (ing'.pc = "chunks" /\ ing.pc # "chunks") =>
              /\ FetchStep
              /\ GatesPassed(ing')
              /\ fail_log' = fail_log
        /\ (FetchStep /\ ing'.text_words # None /\ ~GatesPassed(ing')) =>
              /\ FailsWith({"too_short", "off_topic"})
              /\ Last(fail_log').reason =
                    (IF ing'.text_words < ingest_min_words THEN "too_short"
                     ELSE "off_topic")
              /\ ing'.pc = "next" /\ ing'.idx = ing.idx + 1
              /\ ing'.chunks_left = 0
              /\ drafts' = drafts
      ]_vars

(* one source of the run was rejected as off_topic and a later one, having
   passed both gates, is in its chunk loop *)
C21_Witness ==
    /\ ing.pc = "chunks" /\ ing.chunks_left > 0 /\ GatesPassed(ing)
    /\ ing.idx > 1
    /\ \E i \in 1..Len(fail_log) :
          fail_log[i].reason = "off_topic" /\ fail_log[i].row = ing.sources[ing.idx - 1]

(* Claims about the social-call budget *)

(* run_ingest is at a social source with its social-call count at the budget *)
AtBudget ==
    /\ ing.pc = "next" /\ ing.idx <= Len(ing.sources)
    /\ is_x_url(store[CurRow].url)
    /\ ing.x_calls >= x_max_calls_per_run

(* C22: a pending social source reached with the run's social-call count at
   x_max_calls_per_run is skipped: the run moves to the next source without
   fetching it, its row stays pending, nothing is logged and none of
   processed, extracted, failed and x_calls changes. *)
C22_BudgetSkip ==
    [][ (AtBudget /\ ing' # ing) =>
          /\ ing' = [ing EXCEPT !.idx = @ + 1]
          /\ store'[CurRow].status = "pending"
          /\ \A i \in 1..Len(store) : store'[i] = store[i]
          /\ fail_log' = fail_log /\ succ_log' = succ_log
          /\ drafts' = drafts
      ]_vars

(* a run has returned after it passed over a social source: one social
   source was extracted, the next one is still pending and was not counted *)
C22_Witness ==
    /\ ing.pc = "done" /\ Len(ing.sources) = 2
    /\ x_max_calls_per_run = 1 /\ ing.x_calls = 1
    /\ ing.processed = 1 /\ ing.extracted = 1 /\ ing.failed = 0
    /\ is_x_url(store[ing.sources[2]].url)
    /\ store[ing.sources[2]].status = "pending"

(* Claims about the cooldown *)

(* C23: the cooldown starts with cooldown_seconds to sleep; each pass of its
   loop looks at the stop sentinel first and then sleeps one slice of at most
   2 seconds, never more than what remains, so the slices add up to at most
   cooldown_seconds; with the sentinel present no slice is slept, the
   cooldown ends and the loop, back at the top of the for loop with the
   sentinel present, leaves without starting a cycle. *)
C23_CooldownSlices ==
    [][ /\ (ap'.pc = "cooldown" /\ ap.pc # "cooldown") =>
              ap'.remaining = ap.cooldown_seconds
        /\ (ap.pc = "cooldown" /\ ap' # ap) =>
              /\ ap.remaining >= 0 /\ ap.remaining <= ap.cooldown_seconds
              /\ IF ap.remaining > 0 /\ ~stop_file
                 THEN /\ ap'.pc = "cooldown"
                      /\ ap.remaining - ap'.remaining \in 1..2
                      /\ ap'.remaining >= 0
                 ELSE /\ ap'.pc = "cycle" /\ ap'.cycle = ap.cycle + 1
                      /\ ap'.remaining = ap.remaining
              /\ ap_log' = ap_log /\ store' = store /\ stop_file' = stop_file
        /\ (ap.pc = "cycle" /\ stop_file /\ ap.remaining > 0 /\ ap' # ap) =>
              ap'.pc = "exit"
      ]_vars

(* a stop was requested in the middle of a cooldown: the loop has left with
   a part of the cooldown not slept *)
C23_Witness ==
    /\ ap.pc = "exit" /\ stop_file
    /\ ap.remaining > 0 /\ ap.remaining < ap.cooldown_seconds
    /\ ap.cycle <= ap.max_cycles

(* Claims about exceptions in a cycle *)

(* the positions of run_autopilot inside its for loop *)
InLoop(a) ==
    a.pc \in {"cycle", "queue_cse", "ingest_start", "ingest", "cooldown"}

(* C24: an exception raised inside a cycle does not end run_autopilot: the
   only way out of the loop is the exit step, which writes running = false
   and removes the sentinel, so run_autopilot never ends with the last
   snapshot of the loop saying running = true. *)
C24_CycleExceptionIsolated ==
    [][ (InLoop(ap) /\ ~InLoop(ap')) => ap'.pc = "exit" ]_vars

(* Claims about the cycle records *)

(* C25: autopilot.jsonl is append-only: no record is ever rewritten or
   removed.  A record is appended by the step that completes a cycle and by
   no other step, one record per completed cycle, with the number of that
   cycle; the cycle number starts at 1, grows by one after each completed
   cycle and a record's number is at most max_cycles, so the records of a
   run are numbered 1, 2, ..., k with k <= max_cycles; a cycle's work begins
   only while the cycle number is at most max_cycles, after which the loop
   leaves. *)
C25_OneRecordPerCycle ==
    [][ /\ Len(ap_log') >= Len(ap_log)
        /\ SubSeq(ap_log', 1, Len(ap_log)) = ap_log
        /\ ap_log' # ap_log =>
              /\ ap.pc = "ingest" /\ ap'.pc \in {"exit", "cooldown"}
              /\ Len(ap_log') = Len(ap_log) + 1
              /\ Last(ap_log').cycle = ap.cycle
              /\ ap.cycle \in 1..ap.max_cycles
              /\ ap.cycle > 1 => Last(ap_log).cycle = ap.cycle - 1
        /\ (ap.pc = "ingest" /\ ap'.pc # "ingest") => ap_log' # ap_log
        /\ (ap.pc = "scheduled" /\ ap'.pc # "scheduled") => ap'.cycle = 1
        /\ (InLoop(ap) /\ ap'.cycle # ap.cycle) =>
              /\ ap.pc = "cooldown" /\ ap'.pc = "cycle"
              /\ ap'.cycle = ap.cycle + 1
              /\ Last(ap_log).cycle = ap.cycle
        /\ (ap.pc = "cooldown" /\ ap'.pc = "cycle") => ap'.cycle = ap.cycle + 1
        /\ CycleWorkBegins => ap.cycle <= ap.max_cycles
        /\ (ap.pc = "cycle" /\ ap.cycle > ap.max_cycles /\ ap' # ap) =>
              ap'.pc = "exit" /\ ap_log' = ap_log
      ]_vars

(* a loop allowed two cycles has run both and left: the log holds the
   records of cycles 1 and 2 *)
C25_Witness ==
    /\ ap.pc = "idle" /\ ap.max_cycles = 2 /\ ap.cycle = 3
    /\ Len(ap_log) = 2
    /\ ap_log[1].cycle = 1 /\ ap_log[2].cycle = 2

(* Claims about the order of queue_sources' writes *)

(* C26: queue_sources writes the inbox log before it commits the new rows:
   whatever list it is called with, a call whose commit fails leaves in the
   inbox log a record for every new URL of the batch (the same records a
   call that goes through writes) and leaves the store as it was; a call
   that goes through stores and logs the same new URLs; a call with no new
   URL (all duplicates, or an empty list) writes neither log nor store. *)
C26_InboxBeforeStore ==
    \A urls \in InputLists, source_label \in SourceLabels :
        LET batch == {urls[i].url : i \in 1..Len(urls)} \ ExistingUrls(store)
            done == QueueResult(store, inbox, urls, source_label)
            failed == QueueCommitFails(store, inbox, urls, source_label)
            LoggedBy(r) == {r[2][i].url : i \in (Len(inbox) + 1)..Len(r[2])}
            StoredBy(r) == {r[1][i].url : i \in (Len(store) + 1)..Len(r[1])}
        IN /\ SubSeq(done[1], 1, Len(store)) = store
           /\ SubSeq(done[2], 1, Len(inbox)) = inbox
           /\ LoggedBy(done) = batch /\ StoredBy(done) = batch
           /\ Len(done[1]) - Len(store) = Len(done[2]) - Len(inbox)
           /\ failed[1] = store
           /\ failed[2] = done[2]
           /\ LoggedBy(failed) = batch
           /\ batch = {} => (done = <<store, inbox, 0>> /\ failed = done)
           /\ batch # {} => (failed[3] = None /\ done[3] > 0)

(* a call whose commit failed has left two records in the inbox log for
   URLs the store does not hold *)
C26_Witness ==
    /\ Len(inbox) = Len(store) + 2
    /\ inbox[Len(inbox)].url \notin ExistingUrls(store)
    /\ inbox[Len(inbox) - 1].url \notin ExistingUrls(store)

(* Claims about the web evidence *)

(* C27: web evidence is optional: when web search is disabled, has no key or
   returns no URL, context building for the chapter still succeeds (with
   empty web notes and sources), so the chapter's task does not fail in
   _build_context. *)
C27_WebEvidenceOptional ==
    \A c \in Chapters :
        task[c].web = "none" => ~(task[c].pc = "failed" /\ task[c].err = "context")

(* Claims about the social-call quota *)

(* the social-media sources the run has fetched: those of its sources that it
   did not leave pending *)
XFetched ==
    {i \in 1..Len(ing.sources) :
        /\ is_x_url(store[ing.sources[i]].url)
        /\ store[ing.sources[i]].status # "pending"}

(* C28: when run_ingest returns, the number of social-media sources it
   fetched, whether the fetch succeeded or failed, is at most
   x_max_calls_per_run, and the x_calls it returns is that number. *)
C28_SocialQuota ==
    ing.pc = "done" =>
        /\ Cardinality(XFetched) <= x_max_calls_per_run
        /\ ing.x_calls = Cardinality(XFetched)

(* Claims about stop requests that race with start requests *)

(* a stop has been requested of the running loop: its sentinel is there, or
   was there and has been removed by a start request *)
StopReached == stop_file \/ ap.stop_lost # 0

(* the loop begins the work of a cycle *)
CycleStarts == ap.pc = "cycle" /\ ap'.pc \notin {"cycle", "exit"}

(* C29: once a stop has been requested of a running loop, that loop starts
   no further cycle, whatever the start endpoint, the stop endpoint and the
   loop do in between; a start request that removes the sentinel before the
   loop has seen it included. *)
C29_StopWinsOverStart ==
    [][ StopReached => ~CycleStarts ]_vars

(* Claims about the statistics of a run *)

(* the records of a log that are about a row *)
RecordsOf(log, row) == {k \in 1..Len(log) : log[k].row = row}

(* the sources of the run that have the status *)
SourcesWith(status) ==
    {i \in 1..Len(ing.sources) : store[ing.sources[i]].status = status}

(* C30: when run_ingest returns, processed = extracted + failed and
   processed is at most the number of sources that were pending when the run
   started; processed counts the sources the run did not leave pending, each
   of which is extracted with exactly one record in the success log and none
   in the failure log, or failed with exactly one record, carrying a reason,
   in the failure log and none in the success log. *)
C30_RunStatistics ==
    ing.pc = "done" =>
        /\ ing.processed = ing.extracted + ing.failed
        /\ ing.processed <= Len(ing.sources)
        /\ ing.processed = Len(ing.sources) - Cardinality(SourcesWith("pending"))
        /\ \A i \in 1..Len(ing.sources) :
             LET row == ing.sources[i]
                 ok == RecordsOf(succ_log, row)
                 ko == RecordsOf(fail_log, row)
             IN /\ store[row].status = "extracted" =>
                     Cardinality(ok) = 1 /\ ko = {}
                /\ store[row].status = "failed" =>
                     /\ Cardinality(ko) = 1 /\ ok = {}
                     /\ \A k \in ko : fail_log[k].reason # ""
                /\ store[row].status = "pending" => ok = {} /\ ko = {}

====
